---- MODULE Spec2Model ----
(***************************************************************************)
(* State-machine model of the LavaCast channel lifecycle controller:       *)
(*   src/streamer.py    StreamChannel, StreamManager                        *)
(*   src/transcoder.py  TranscodeJob, specs_match                           *)
(*   src/uploader.py    process_upload._pipeline                            *)
(*   src/app.py         upload, retranscode, channel_settings, remove       *)
(*                                                                         *)
(* Twelve specifications share the variables:                              *)
(*   Spec        the registry API on every channel (add, update, start,    *)
(*               stop, remove, restart of the server);                     *)
(*   SpecWorker  one channel, with the steps of the stream worker threads  *)
(*               interleaved;                                              *)
(*   SpecJob     transcode jobs of one channel started through             *)
(*               start_transcode, cancel_transcode and the job threads;    *)
(*   SpecUpload  transcode jobs started by the upload pipeline and by the  *)
(*               retranscode request, with the callbacks these install;    *)
(*   SpecSettings the global settings and channel settings requests on     *)
(*               one channel;                                              *)
(*   SpecLoad    startup on a state file found on disk: documents in the   *)
(*               sectioned and the flat format, missing media files,       *)
(*               malformed entries, unreadable files, interrupted writes;  *)
(*   SpecFleet   add_channel, start, stop and start_all on every channel   *)
(*               with the worker threads;                                  *)
(*   SpecMatch   specs_match on probed sources and target profiles;        *)
(*   SpecRequest the upload and retranscode requests with their            *)
(*               validation, on one channel;                               *)
(*   SpecRun     SpecWorker's steps of one channel, the worker threads     *)
(*               scheduled fairly;                                         *)
(*   SpecJobFair SpecJob with the job threads scheduled fairly;            *)
(*   SpecRemoval the upload pipeline and remove_channel on one channel.    *)
(***************************************************************************)
EXTENDS Integers, Sequences, FiniteSets, TLC

(***************************************************************************)
(* Bounds of the model.                                                    *)
(***************************************************************************)
NumCids == 2
MaxThreads == 2
MaxJobs == 2
MaxBlocks == 2

(***************************************************************************)
(* Program constants.                                                      *)
(***************************************************************************)
base_port == 1234
IpModulus == 254
PctCap == 99
PctFinal == 100
UsPerSecond == 1000000

Cids == 0 .. (NumCids - 1)
ThreadIds == 1 .. MaxThreads
JobIds == 1 .. MaxJobs

\* Python's None for string-valued fields; 0 stands for None where the field
\* holds a reference (a child process, a job).
None == "None"
NoChannel == [obj |-> 0, process |-> 0, running |-> FALSE]
NoMeta == [absent |-> TRUE]
NoFile == [absent |-> TRUE]

default_encap == "udp"
default_loop == TRUE

VARIABLES
    channels,        \* StreamManager.channels: cid -> StreamChannel or NoChannel
    metadata,        \* StreamManager.metadata: cid -> dict or NoMeta
    transcode_jobs,  \* StreamManager.transcode_jobs: cid -> job id, 0 when absent
    global_bitrate,  \* StreamManager.global_bitrate (None or a bitrate string)
    selected_nic,    \* StreamManager.selected_nic (None or a NIC name)
    state_file,      \* contents of channel_state.json, NoFile before the first save
    files,           \* paths that exist on disk
    wthreads,        \* threads running StreamChannel._run
    orphans,         \* StreamChannel objects the registry dropped, still held by a thread
    stop_log,        \* history: per cid, did stop() return since the last start()
    jobs,            \* TranscodeJob objects with their launcher and _run thread
    monitor_nic,     \* StreamManager.monitor_nic
    auto_start,      \* StreamManager.auto_start
    media_path,      \* StreamManager.media_path
    global_tc,       \* StreamManager.global_tc, kept equal to app.GLOBAL_TC
    last_call        \* history: the last traced call, its arguments, its result and
                     \* the WARN records it logged

regVars == <<channels, metadata, global_bitrate, selected_nic, state_file, files>>
workerVars == <<wthreads, orphans, stop_log>>
jobVars == <<transcode_jobs, jobs>>
settingsVars == <<monitor_nic, auto_start, media_path, global_tc>>
vars == <<regVars, workerVars, jobVars, settingsVars, last_call>>

(***************************************************************************)
(* Values.                                                                 *)
(***************************************************************************)
Names == {"a"}
\* media/originals/<filename> and media/transcoded/CH<cid+1>_<stem>.ts
OrigPath(name) == [dir |-> "originals", cid |-> -1, name |-> name]
TransPath(cid, name) == [dir |-> "transcoded", cid |-> cid, name |-> name]
\* the empty path ""
NoPath == [dir |-> "", cid |-> -1, name |-> ""]
Encaps == {"udp", "rtp"}
Codecs == {"h264", "h265"}

\* dict.get(k, d)
Get(m, k, d) == IF k \in DOMAIN m THEN m[k] ELSE d

\* x or d, for the falsy strings "" and None
Or(x, d) == IF x = "" \/ x = None THEN d ELSE x

(***************************************************************************)
(* Address helpers.  An address multicast_base + "." + n is represented by *)
(* its last octet n: multicast_base is fixed at construction.              *)
(***************************************************************************)
_auto_ip(cid) == (cid % IpModulus) + 1

\* Variant of _auto_port with one port per channel.
_auto_port_dense(cid) == base_port + cid

_auto_port(cid) == base_port + (cid * 2)

(***************************************************************************)
(* StreamChannel objects.  obj is the identity of the Python object: a     *)
(* _run thread keeps its own object when the registry drops or replaces    *)
(* it.  process is the id of the thread whose child the handle refers to.  *)
(***************************************************************************)
ObjIds == 1 .. (NumCids + MaxThreads + 1)

LiveThreadObjs == {wthreads[t].obj : t \in {u \in ThreadIds : wthreads[u].pc \in {"spawn", "wait", "finish"}}}

FreshObj == CHOOSE o \in ObjIds :
    /\ o \notin {channels[c].obj : c \in Cids}
    /\ o \notin LiveThreadObjs
    /\ \A p \in ObjIds : (p < o) => (p \in {channels[c].obj : c \in Cids} \/ p \in LiveThreadObjs)

StreamChannel(obj, cid, filepath, ip, port, encap, bitrate, loop, nic, pre_transcoded) ==
    [obj |-> obj, cid |-> cid, filepath |-> filepath, ip |-> ip, port |-> port,
     encap |-> encap, bitrate |-> bitrate, loop |-> loop, nic |-> nic,
     pre_transcoded |-> pre_transcoded, process |-> 0, running |-> FALSE]

\* A streaming command that rate-limits whenever a bitrate is set, whatever
\* pre_transcoded says.
_build_cmd_capped(ch) ==
    [loop |-> ch.loop, input |-> ch.filepath,
     vcodec |-> IF Or(ch.bitrate, None) = None THEN "copy" ELSE "cbr",
     rate |-> IF Or(ch.bitrate, None) = None THEN None ELSE ch.bitrate,
     fmt |-> IF ch.encap = "rtp" THEN "rtp_mpegts" ELSE "mpegts",
     ip |-> ch.ip, port |-> ch.port]

\* StreamChannel._build_cmd: "-c copy" (vcodec copy, no rate arguments) or
\* "-b:v, -maxrate, -bufsize" (vcodec cbr at rate).
_build_cmd(ch) ==
    [loop |-> ch.loop, input |-> ch.filepath,
     vcodec |-> IF ch.pre_transcoded \/ Or(ch.bitrate, None) = None THEN "copy" ELSE "cbr",
     rate |-> IF ch.pre_transcoded \/ Or(ch.bitrate, None) = None THEN None ELSE ch.bitrate,
     fmt |-> IF ch.encap = "rtp" THEN "rtp_mpegts" ELSE "mpegts",
     ip |-> ch.ip, port |-> ch.port]

HasChannel(chs, cid) == chs[cid] # NoChannel

HasMeta(md, cid) == md[cid] # NoMeta

\* StreamManager.is_running
is_running(chs, cid) == IF HasChannel(chs, cid) THEN chs[cid].running ELSE FALSE

(***************************************************************************)
(* State persistence.                                                      *)
(***************************************************************************)
_SKIP == {"running", "thumb"}

_clean(m) == [k \in (DOMAIN m) \ _SKIP |-> m[k]]

\* The document _save_state writes (the '_readme' comment keys are left out:
\* the loader ignores them).
StateDocOf(md, gb, nic, mon, mp, auto, tc) ==
    [global_transcode |-> tc,
     global_streaming |-> [global_bitrate |-> Or(gb, ""), selected_nic |-> Or(nic, ""),
                           monitor_nic |-> Or(mon, ""), media_path |-> mp,
                           auto_start |-> auto],
     channels |-> [c \in {d \in Cids : HasMeta(md, d)} |-> _clean(md[c])]]

\* _save_state by a caller that leaves monitor_nic, media_path, auto_start and
\* global_tc as they are.
StateDoc(md, gb, nic) ==
    StateDocOf(md, gb, nic, monitor_nic, media_path, auto_start, global_tc)

\* What channel_state.json can hold besides a document: a file that cannot
\* be opened or is not JSON.
Unreadable(kind) == [unreadable |-> kind]

IsDoc(f) == "absent" \notin DOMAIN f /\ "unreadable" \notin DOMAIN f

\* The empty dict {}
EmptyDict == [k \in {} |-> ""]

\* A channel entry that is not a JSON object.
MalformedEntry == [malformed |-> TRUE]

\* gs = state.get("global_streaming", {})
Gs(doc) == Get(doc, "global_streaming", EmptyDict)

\* state.get("channels", {})
DocChannels(doc) == Get(doc, "channels", EmptyDict)

\* Entries on which m.get(...) raises.
BadCids(doc) == {c \in DOMAIN DocChannels(doc) : "malformed" \in DOMAIN DocChannels(doc)[c]}

\* Entries the loop reaches: it takes them in the order of the file, here by
\* ascending cid, and ends at the first one that raises.
Visited(doc) == {c \in (DOMAIN DocChannels(doc)) \ BadCids(doc) : \A b \in BadCids(doc) : c < b}

\* Variant of Restorable that restores an entry without looking for its file.
RestorableAny(doc, fs) ==
    {c \in Visited(doc) : Get(DocChannels(doc)[c], "filepath", NoPath) # NoPath}

\* Channels of a document that _load_state restores: the file must exist.
Restorable(doc, fs) ==
    {c \in Visited(doc) :
        LET filepath == Get(DocChannels(doc)[c], "filepath", NoPath)
        IN  filepath # NoPath /\ filepath \in fs}

\* Variant of LoadedBitrate that reads the sectioned format only.
LoadedBitrateSectioned(doc) == Or(Get(Gs(doc), "global_bitrate", None), None)

LoadedBitrate(doc) ==
    Or(Or(Get(Gs(doc), "global_bitrate", None), Get(doc, "global_bitrate", None)), None)

LoadedNic(doc) ==
    Or(Or(Get(Gs(doc), "selected_nic", None), Get(doc, "selected_nic", None)), None)

LoadedMonitorNic(doc) == Or(Get(Gs(doc), "monitor_nic", None), "")

LoadedAutoStart(doc) == Get(Gs(doc), "auto_start", FALSE)

\* mp = gs.get("media_path") or state.get("media_path"); if mp: self.media_path = mp
LoadedMediaPath(doc, configured) ==
    Or(Or(Get(Gs(doc), "media_path", None), Get(doc, "media_path", None)), configured)

\* app.py: GLOBAL_TC = dict(cfg.TRANSCODE); GLOBAL_TC.update(manager.global_tc)
LoadedTc(doc, configured) ==
    LET gt == Get(doc, "global_transcode", EmptyDict)
    IN  [k \in (DOMAIN configured) \cup (DOMAIN gt) |->
            IF k \in DOMAIN gt THEN gt[k] ELSE configured[k]]

LoadedChannel(doc, c, obj) ==
    LET m == DocChannels(doc)[c]
    IN  StreamChannel(obj, c, m["filepath"],
                      Get(m, "ip", _auto_ip(c)), Get(m, "port", _auto_port(c)),
                      Get(m, "encap", default_encap), LoadedBitrate(doc),
                      Get(m, "loop", default_loop), LoadedNic(doc),
                      Get(m, "pre_transcoded", FALSE))

\* Variant of LoadedMeta that keeps the file of the entry and nothing else.
LoadedMetaBare(doc, c) ==
    [filepath |-> DocChannels(doc)[c]["filepath"], running |-> FALSE]

LoadedMeta(doc, c) ==
    LET m == DocChannels(doc)[c]
    IN  [k \in (DOMAIN m) \cup {"running"} |-> IF k = "running" THEN FALSE ELSE m[k]]

(***************************************************************************)
(* StreamManager.add_channel, as the new values of channels and metadata.  *)
(***************************************************************************)
\* Variant of AddedChannel that constructs a worker whether one exists or not.
AddedChannelFresh(chs, md, gb, nic, obj, cid, filepath, pre_transcoded) ==
    LET prev == IF HasMeta(md, cid) THEN md[cid] ELSE [absent |-> TRUE]
    IN  StreamChannel(obj, cid, filepath, _auto_ip(cid), _auto_port(cid),
                      Get(prev, "encap", default_encap), gb,
                      Get(prev, "loop", default_loop), nic, pre_transcoded)

AddedChannel(chs, md, gb, nic, obj, cid, filepath, pre_transcoded) ==
    LET prev == IF HasMeta(md, cid) THEN md[cid] ELSE [absent |-> TRUE]
    IN  IF HasChannel(chs, cid)
        THEN [chs[cid] EXCEPT !.filepath = filepath, !.pre_transcoded = pre_transcoded]
        ELSE StreamChannel(obj, cid, filepath, _auto_ip(cid), _auto_port(cid),
                           Get(prev, "encap", default_encap), gb,
                           Get(prev, "loop", default_loop), nic, pre_transcoded)

AddedMeta(md, gb, cid, filepath, filename, pre_transcoded, src_path, codec, preset, vbitrate, abitrate) ==
    LET prev == IF HasMeta(md, cid) THEN md[cid] ELSE [absent |-> TRUE]
    IN  [filename       |-> filename,
         filepath       |-> filepath,
         src_path       |-> src_path,
         ip             |-> _auto_ip(cid),
         port           |-> _auto_port(cid),
         encap          |-> Get(prev, "encap", default_encap),
         bitrate        |-> Or(gb, ""),
         loop           |-> Get(prev, "loop", default_loop),
         running        |-> FALSE,
         pre_transcoded |-> pre_transcoded,
         thumb          |-> cid,
         codec          |-> codec,
         preset         |-> preset,
         vbitrate       |-> vbitrate,
         abitrate       |-> abitrate]

(***************************************************************************)
(* TranscodeJob objects.  A job id stands for one launch: the launcher     *)
(* (lpc), the TranscodeJob it constructs and the thread running _run (pc). *)
(*   kind: whose callbacks the job carries: "upload" (uploader._pipeline), *)
(*         "retranscode" (app.retranscode) or "api" (callbacks that accept *)
(*         the fps= and speed= keywords _run passes).                      *)
(*   log:  history of the callbacks delivered and the events emitted for   *)
(*         the job, with a "cancel_returned" mark when cancel() returns.   *)
(***************************************************************************)
NoJob ==
    [lpc |-> "idle", kind |-> "none", cid |-> 0, name |-> "a", src_path |-> OrigPath("a"),
     codec |-> "h264", was_running |-> FALSE,
     active |-> FALSE, process |-> "none", rc |-> 0, pc |-> "idle",
     duration |-> 0, nread |-> 0, pct |-> 0, eta |-> 0, log |-> <<>>]

\* An emitted event or a delivered callback; eta is the third argument of
\* on_progress, 0 for everything else.
Entry(e, pct, codec) == [e |-> e, pct |-> pct, codec |-> codec, eta |-> 0]

Tick(pct, eta, codec) == [Entry("on_progress", pct, codec) EXCEPT !.eta = eta]

Logged(j, e, pct, codec) == Append(j.log, Entry(e, pct, codec))

(***************************************************************************)
(* A thread slot: the _run thread and the child it spawned.  The slot is   *)
(* free again once the thread has returned and its child is gone.          *)
(***************************************************************************)
NoThread == [pc |-> "unused", cid |-> 0, obj |-> 0, child |-> "none"]

Retired(th) == IF th.pc = "done" /\ th.child # "alive" THEN NoThread ELSE th

(***************************************************************************)
(* StreamChannel.stop on a channel record, and what it does to the child.  *)
(***************************************************************************)
StoppedChannel(ch) == [ch EXCEPT !.running = FALSE, !.process = 0]

\* terminate(), wait(timeout=3), kill(): the child the handle refers to is dead
\* when stop() returns.
KilledBy(ch, wt) ==
    IF ch.process # 0 /\ wt[ch.process].child = "alive"
    THEN [wt EXCEPT ![ch.process] = Retired([wt[ch.process] EXCEPT !.child = "dead"])]
    ELSE wt

(***************************************************************************)
(* TranscodeJob.cancel on a job record.                                    *)
(***************************************************************************)
SigTerm == -15

Cancelled(j) ==
    [j EXCEPT !.active = FALSE,
              !.process = IF j.process = "alive" THEN "exited" ELSE j.process,
              !.rc = IF j.process = "alive" THEN SigTerm ELSE j.rc,
              !.log = Logged(j, "cancel_returned", 0, j.codec)]

\* StreamManager.cancel_transcode: pop the job of cid and cancel it.
CancelledJobs(js, tj, cid) ==
    IF tj[cid] # 0 THEN [js EXCEPT ![tj[cid]] = Cancelled(js[tj[cid]])] ELSE js

Popped(tj, cid) == [tj EXCEPT ![cid] = 0]

(***************************************************************************)
(* Configured defaults (config.py) and the empty call trace.               *)
(***************************************************************************)
default_codec == "h264"

DefaultPreset == "fast"

default_media_path == "~/lavacast40/media"

DefaultVbitrate == "8M"
DefaultAbitrate == "192k"

default_resolution == "1080p"

default_fps == "original"

default_tc ==
    [codec |-> default_codec, preset |-> DefaultPreset, vbitrate |-> DefaultVbitrate,
     abitrate |-> DefaultAbitrate, resolution |-> default_resolution, fps |-> default_fps]

NoCall == [op |-> "none"]

(***************************************************************************)
(* Initial state: StreamManager.__init__ with no state file on disk.       *)
(***************************************************************************)
Init ==
    /\ channels = [c \in Cids |-> NoChannel]
    /\ metadata = [c \in Cids |-> NoMeta]
    /\ transcode_jobs = [c \in Cids |-> 0]
    /\ global_bitrate = None
    /\ selected_nic = None
    /\ state_file = NoFile
    /\ files = {}
    /\ wthreads = [t \in ThreadIds |-> NoThread]
    /\ orphans = [o \in ObjIds |-> NoChannel]
    /\ stop_log = [c \in Cids |-> FALSE]
    /\ jobs = [j \in JobIds |-> NoJob]
    /\ monitor_nic = ""
    /\ auto_start = FALSE
    /\ media_path = default_media_path
    /\ global_tc = default_tc
    /\ last_call = NoCall

(***************************************************************************)
(* Upload with codec = copy: process_upload saves the file and _pipeline   *)
(* registers the channel on the source itself.                             *)
(***************************************************************************)
UploadCopy(cid, name, overwrite) ==
    /\ OrigPath(name) \notin files \/ overwrite
    /\ files' = files \cup {OrigPath(name)}
    /\ channels' = [channels EXCEPT ![cid] =
           AddedChannel(channels, metadata, global_bitrate, selected_nic, FreshObj,
                        cid, OrigPath(name), FALSE)]
    /\ metadata' = [metadata EXCEPT ![cid] =
           AddedMeta(metadata, global_bitrate, cid, OrigPath(name), name, FALSE,
                     OrigPath(name), "copy", DefaultPreset, DefaultVbitrate, DefaultAbitrate)]
    /\ state_file' = StateDoc(metadata', global_bitrate, selected_nic)
    /\ UNCHANGED <<global_bitrate, selected_nic, workerVars, jobVars>>
    /\ UNCHANGED <<settingsVars, last_call>>

(***************************************************************************)
(* StreamManager.update_channel(cid, **kw); kw is a function from keys to  *)
(* values.                                                                 *)
(***************************************************************************)
_TC == {"codec", "preset", "vbitrate", "abitrate"}

NetKeys == {"ip", "port", "encap", "bitrate", "loop", "nic"}

\* StreamChannel.update_settings after the stop: the assignments.
WithSettings(ch, net_kw) ==
    [k \in DOMAIN ch |->
        IF k \in DOMAIN net_kw
        THEN IF k \in {"bitrate", "nic"} THEN Or(net_kw[k], None) ELSE net_kw[k]
        ELSE ch[k]]

UpdatedMeta(m, kw) ==
    [k \in (DOMAIN m) \cup ((DOMAIN kw) \cap _TC) |->
        IF k \in DOMAIN kw THEN kw[k] ELSE m[k]]

\* update_channel without the partition of its keys: every key, profile keys
\* included, is handed to update_settings.
UpdateChannelUnpartitioned(cid, kw) ==
    /\ HasChannel(channels, cid)
    /\ LET ch == channels[cid]
           was == IF DOMAIN kw # {} THEN ch.running ELSE FALSE
           stopped == IF was THEN StoppedChannel(ch) ELSE ch
       IN  /\ channels' = [channels EXCEPT ![cid] = WithSettings(stopped, kw)]
           /\ wthreads' = IF was THEN KilledBy(ch, wthreads) ELSE wthreads
           /\ stop_log' = IF was THEN [stop_log EXCEPT ![cid] = TRUE] ELSE stop_log
           /\ last_call' = [op |-> "update_channel", cid |-> cid, kw |-> kw,
                            running |-> ch.running, was |-> was]
    /\ UNCHANGED <<orphans, settingsVars>>
    /\ metadata' = IF HasMeta(metadata, cid)
                   THEN [metadata EXCEPT ![cid] = UpdatedMeta(metadata[cid], kw)]
                   ELSE metadata
    /\ state_file' = StateDoc(metadata', global_bitrate, selected_nic)
    /\ UNCHANGED <<global_bitrate, selected_nic, files, jobVars>>

UpdateChannel(cid, kw) ==
    /\ HasChannel(channels, cid)
    /\ LET ch == channels[cid]
           net_kw == [k \in (DOMAIN kw) \ _TC |-> kw[k]]
           was == IF DOMAIN net_kw # {} THEN ch.running ELSE FALSE
           stopped == IF was THEN StoppedChannel(ch) ELSE ch
       IN  /\ channels' = [channels EXCEPT ![cid] = WithSettings(stopped, net_kw)]
           /\ wthreads' = IF was THEN KilledBy(ch, wthreads) ELSE wthreads
           /\ stop_log' = IF was THEN [stop_log EXCEPT ![cid] = TRUE] ELSE stop_log
           /\ last_call' = [op |-> "update_channel", cid |-> cid, kw |-> kw,
                            running |-> ch.running, was |-> was]
    /\ UNCHANGED <<orphans, settingsVars>>
    /\ metadata' = IF HasMeta(metadata, cid)
                   THEN [metadata EXCEPT ![cid] = UpdatedMeta(metadata[cid], kw)]
                   ELSE metadata
    /\ state_file' = StateDoc(metadata', global_bitrate, selected_nic)
    /\ UNCHANGED <<global_bitrate, selected_nic, files, jobVars>>

(***************************************************************************)
(* StreamManager.start / StreamChannel.start.                              *)
(***************************************************************************)
\* A slot is reused only when no handle refers to its (exited) child any more.
FreeThreads ==
    {t \in ThreadIds :
        /\ wthreads[t].pc = "unused"
        /\ \A c \in Cids : channels[c].process # t
        /\ \A o \in ObjIds : orphans[o].process # t}

NewThread == CHOOSE t \in FreeThreads : \A u \in FreeThreads : t <= u

Start(cid) ==
    /\ HasChannel(channels, cid)
    /\ IF channels[cid].running
       THEN /\ channels' = [channels EXCEPT ![cid].nic = selected_nic]
            /\ UNCHANGED <<wthreads, stop_log>>
       ELSE /\ FreeThreads # {}
            /\ channels' = [channels EXCEPT ![cid].nic = selected_nic, ![cid].running = TRUE]
            /\ wthreads' = [wthreads EXCEPT ![NewThread] =
                   [pc |-> "spawn", cid |-> cid, obj |-> channels[cid].obj, child |-> "none"]]
            /\ stop_log' = [stop_log EXCEPT ![cid] = FALSE]
    /\ metadata' = [metadata EXCEPT ![cid].running = TRUE]
    /\ UNCHANGED <<global_bitrate, selected_nic, state_file, files, orphans, jobVars>>
    /\ UNCHANGED <<settingsVars, last_call>>

(***************************************************************************)
(* StreamManager.stop / StreamChannel.stop.                                *)
(***************************************************************************)
Stop(cid) ==
    /\ HasChannel(channels, cid)
    /\ channels' = [channels EXCEPT ![cid] = StoppedChannel(channels[cid])]
    /\ wthreads' = KilledBy(channels[cid], wthreads)
    /\ stop_log' = [stop_log EXCEPT ![cid] = TRUE]
    /\ metadata' = IF HasMeta(metadata, cid)
                   THEN [metadata EXCEPT ![cid].running = FALSE]
                   ELSE metadata
    /\ UNCHANGED <<global_bitrate, selected_nic, state_file, files, orphans, jobVars>>
    /\ UNCHANGED <<settingsVars, last_call>>

(***************************************************************************)
(* StreamChannel._run, one thread per start().  The thread works on its    *)
(* own object: the registry's channel while it is still registered, the    *)
(* dropped object otherwise.                                               *)
(***************************************************************************)
Live(t) == wthreads[t].pc \in {"spawn", "wait", "finish"}

Registered(t) == channels[wthreads[t].cid].obj = wthreads[t].obj

Self(t) == IF Registered(t) THEN channels[wthreads[t].cid] ELSE orphans[wthreads[t].obj]

\* The channels and orphans after thread t assigns its object's fields.
ChannelsWith(t, ch) == IF Registered(t) THEN [channels EXCEPT ![wthreads[t].cid] = ch] ELSE channels

OrphansWith(t, ch) == IF Registered(t) THEN orphans ELSE [orphans EXCEPT ![wthreads[t].obj] = ch]

\* self.process = subprocess.Popen(self._build_cmd(), ...)
WSpawn(t) ==
    /\ wthreads[t].pc = "spawn"
    /\ wthreads' = [wthreads EXCEPT ![t].pc = "wait", ![t].child = "alive"]
    /\ channels' = ChannelsWith(t, [Self(t) EXCEPT !.process = t])
    /\ orphans' = OrphansWith(t, [Self(t) EXCEPT !.process = t])
    /\ UNCHANGED <<metadata, global_bitrate, selected_nic, state_file, files, stop_log, jobVars>>
    /\ UNCHANGED <<settingsVars, last_call>>

\* Popen (or _build_cmd) raises: the except clause logs and falls through.
WSpawnFail(t) ==
    /\ wthreads[t].pc = "spawn"
    /\ wthreads' = [wthreads EXCEPT ![t].pc = "finish"]
    /\ UNCHANGED <<regVars, orphans, stop_log, jobVars>>
    /\ UNCHANGED <<settingsVars, last_call>>

\* The streaming child exits on its own (end of file with loop off, an error).
WChildExit(t) ==
    /\ wthreads[t].child = "alive"
    /\ wthreads' = [wthreads EXCEPT ![t] = Retired([wthreads[t] EXCEPT !.child = "dead"])]
    /\ UNCHANGED <<regVars, orphans, stop_log, jobVars>>
    /\ UNCHANGED <<settingsVars, last_call>>

\* self.process.wait() returns: the handle was read right after the Popen
\* of this thread, so the thread waits for its own child.  A stop() that has
\* set the handle to None in between has killed that child, and the
\* AttributeError is swallowed by the except clause.
WWait(t) ==
    /\ wthreads[t].pc = "wait"
    /\ wthreads[t].child # "alive"
    /\ wthreads' = [wthreads EXCEPT ![t].pc = "finish"]
    /\ UNCHANGED <<regVars, orphans, stop_log, jobVars>>
    /\ UNCHANGED <<settingsVars, last_call>>

\* A thread that returns without clearing the flag.
WFinishKeepsFlag(t) ==
    /\ wthreads[t].pc = "finish"
    /\ wthreads' = [wthreads EXCEPT ![t] = Retired([wthreads[t] EXCEPT !.pc = "done"])]
    /\ UNCHANGED <<regVars, orphans, stop_log, jobVars>>
    /\ UNCHANGED <<settingsVars, last_call>>

\* self.running = False; on_stop(self.cid).  A dropped object no thread holds
\* any more is garbage.
WFinish(t) ==
    /\ wthreads[t].pc = "finish"
    /\ wthreads' = [wthreads EXCEPT ![t] = Retired([wthreads[t] EXCEPT !.pc = "done"])]
    /\ channels' = ChannelsWith(t, [Self(t) EXCEPT !.running = FALSE])
    /\ orphans' =
         IF Registered(t)
         THEN orphans
         ELSE IF \E u \in ThreadIds \ {t} : Live(u) /\ wthreads[u].obj = wthreads[t].obj
              THEN [orphans EXCEPT ![wthreads[t].obj].running = FALSE]
              ELSE [orphans EXCEPT ![wthreads[t].obj] = NoChannel]
    /\ UNCHANGED <<metadata, global_bitrate, selected_nic, state_file, files, stop_log, jobVars>>
    /\ UNCHANGED <<settingsVars, last_call>>

(***************************************************************************)
(* DELETE /api/remove/<cid>: StreamManager.remove_channel, then the files. *)
(***************************************************************************)
MetaPaths(m) ==
    (IF "src_path" \in DOMAIN m THEN {m["src_path"]} ELSE {})
        \cup (IF "filepath" \in DOMAIN m THEN {m["filepath"]} ELSE {})

Remove(cid) ==
    /\ jobs' = CancelledJobs(jobs, transcode_jobs, cid)
    /\ transcode_jobs' = Popped(transcode_jobs, cid)
    /\ IF HasChannel(channels, cid)
       THEN /\ wthreads' = KilledBy(channels[cid], wthreads)
            /\ orphans' =
                 IF \E t \in ThreadIds : Live(t) /\ wthreads[t].obj = channels[cid].obj
                 THEN [orphans EXCEPT ![channels[cid].obj] = StoppedChannel(channels[cid])]
                 ELSE orphans
       ELSE UNCHANGED <<wthreads, orphans>>
    /\ stop_log' = [stop_log EXCEPT ![cid] = FALSE]
    /\ channels' = [channels EXCEPT ![cid] = NoChannel]
    /\ metadata' = [metadata EXCEPT ![cid] = NoMeta]
    /\ state_file' = StateDoc(metadata', global_bitrate, selected_nic)
    /\ files' = files \ (IF HasMeta(metadata, cid) THEN MetaPaths(metadata[cid]) ELSE {})
    /\ last_call' = [op |-> "remove", cid |-> cid]
    /\ UNCHANGED <<global_bitrate, selected_nic>>
    /\ UNCHANGED settingsVars

(***************************************************************************)
(* The process ends and is started again: StreamManager.__init__ and       *)
(* _load_state.  Threads, jobs and handles of the old process are gone.    *)
(***************************************************************************)
Restart ==
    /\ IF IsDoc(state_file)
       THEN LET ok == Restorable(state_file, files)
            IN  /\ channels' = [c \in Cids |->
                       IF c \in ok THEN LoadedChannel(state_file, c, c + 1) ELSE NoChannel]
                /\ metadata' = [c \in Cids |->
                       IF c \in ok THEN LoadedMeta(state_file, c) ELSE NoMeta]
                /\ global_bitrate' = LoadedBitrate(state_file)
                /\ selected_nic' = LoadedNic(state_file)
                /\ monitor_nic' = LoadedMonitorNic(state_file)
                /\ auto_start' = LoadedAutoStart(state_file)
                /\ media_path' = LoadedMediaPath(state_file, default_media_path)
                /\ global_tc' = LoadedTc(state_file, default_tc)
                /\ last_call' = [op |-> "restart",
                                 raised |-> BadCids(state_file) # {},
                                 restored |-> ok,
                                 warned |-> Visited(state_file) \ ok]
       ELSE /\ channels' = [c \in Cids |-> NoChannel]
            /\ metadata' = [c \in Cids |-> NoMeta]
            /\ global_bitrate' = None
            /\ selected_nic' = None
            /\ monitor_nic' = ""
            /\ auto_start' = FALSE
            /\ media_path' = default_media_path
            /\ global_tc' = default_tc
            /\ last_call' = [op |-> "restart", raised |-> FALSE, restored |-> {}, warned |-> {}]
    /\ transcode_jobs' = [c \in Cids |-> 0]
    /\ wthreads' = [t \in ThreadIds |-> NoThread]
    /\ orphans' = [o \in ObjIds |-> NoChannel]
    /\ stop_log' = [c \in Cids |-> FALSE]
    /\ jobs' = [j \in JobIds |-> NoJob]
    /\ UNCHANGED <<state_file, files>>

(***************************************************************************)
(* The registry specification.                                             *)
(***************************************************************************)
OtherCid(cid) == (cid + 1) % NumCids

\* Keyword sets a settings request carries.
UpdateInputs(cid) ==
    {[ip |-> _auto_ip(OtherCid(cid)), port |-> _auto_port(OtherCid(cid))],
     [codec |-> "h265"]}

WorkerUpdateInputs == {[encap |-> "rtp"], [codec |-> "h265"]}

Next ==
    \/ \E cid \in Cids, name \in Names, overwrite \in BOOLEAN : UploadCopy(cid, name, overwrite)
    \/ \E cid \in Cids : \E kw \in UpdateInputs(cid) : UpdateChannel(cid, kw)
    \/ \E cid \in Cids : Start(cid)
    \/ \E cid \in Cids : Stop(cid)
    \/ \E cid \in Cids : Remove(cid)
    \/ Restart

Spec == Init /\ [][Next]_vars

(***************************************************************************)
(* One channel and its worker threads.                                     *)
(***************************************************************************)
WorkerCid == CHOOSE c \in Cids : \A d \in Cids : c <= d

NextWorker ==
    \/ \E name \in Names, overwrite \in BOOLEAN : UploadCopy(WorkerCid, name, overwrite)
    \/ \E kw \in WorkerUpdateInputs : UpdateChannel(WorkerCid, kw)
    \/ Start(WorkerCid)
    \/ Stop(WorkerCid)
    \/ Remove(WorkerCid)
    \/ Restart
    \/ \E t \in ThreadIds : WSpawn(t)
    \/ \E t \in ThreadIds : WSpawnFail(t)
    \/ \E t \in ThreadIds : WChildExit(t)
    \/ \E t \in ThreadIds : WWait(t)
    \/ \E t \in ThreadIds : WFinish(t)

SpecWorker == Init /\ [][NextWorker]_vars

(***************************************************************************)
(* Launching a transcode.  Each launcher runs in a thread of its own (the  *)
(* upload pipeline thread, a request handler); lpc is its position inside  *)
(* StreamManager.start_transcode.                                          *)
(***************************************************************************)
IdleJobs == {j \in JobIds : jobs[j].lpc = "idle"}

\* Job objects are taken in order.
NextJobId(j) == j \in IdleJobs /\ \A k \in IdleJobs : j <= k

\* A launcher that has not emitted transcode_start when it calls start_transcode.
LaunchUploadLate(j, cid, name, codec, remux, overwrite) ==
    /\ NextJobId(j)
    /\ OrigPath(name) \notin files \/ overwrite
    /\ files' = files \cup {OrigPath(name)}
    /\ jobs' = [jobs EXCEPT ![j] =
           [NoJob EXCEPT !.lpc = "cancel", !.kind = "upload", !.cid = cid, !.name = name,
                         !.src_path = OrigPath(name), !.codec = codec]]
    /\ UNCHANGED <<channels, metadata, global_bitrate, selected_nic, state_file,
                   workerVars, transcode_jobs>>
    /\ UNCHANGED <<settingsVars, last_call>>

\* process_upload and _pipeline up to the start_transcode call, codec # "copy":
\* the file is saved, specs_match decides remux, transcode_start is emitted.
LaunchUpload(j, cid, name, codec, remux, overwrite) ==
    /\ NextJobId(j)
    /\ OrigPath(name) \notin files \/ overwrite
    /\ files' = files \cup {OrigPath(name)}
    /\ jobs' = [jobs EXCEPT ![j] =
           [NoJob EXCEPT !.lpc = "cancel", !.kind = "upload", !.cid = cid, !.name = name,
                         !.src_path = OrigPath(name), !.codec = codec,
                         !.log = <<Entry("transcode_start", 0, IF remux THEN "remux" ELSE codec)>>]]
    /\ UNCHANGED <<channels, metadata, global_bitrate, selected_nic, state_file,
                   workerVars, transcode_jobs>>
    /\ UNCHANGED <<settingsVars, last_call>>

\* POST /api/retranscode/<cid> up to the start_transcode call, codec # "copy".
LaunchRetranscode(j, cid, codec) ==
    /\ NextJobId(j)
    /\ HasMeta(metadata, cid)
    /\ Get(metadata[cid], "src_path", NoPath) \in files
    /\ LET was_running == is_running(channels, cid)
       IN  /\ jobs' = [jobs EXCEPT ![j] =
                  [NoJob EXCEPT !.lpc = "cancel", !.kind = "retranscode", !.cid = cid,
                                !.name = metadata[cid]["filename"],
                                !.src_path = metadata[cid]["src_path"],
                                !.codec = codec, !.was_running = was_running,
                                !.log = <<Entry("transcode_start", 0, codec)>>]]
           /\ IF was_running
              THEN /\ channels' = [channels EXCEPT ![cid] = StoppedChannel(channels[cid])]
                   /\ wthreads' = KilledBy(channels[cid], wthreads)
                   /\ stop_log' = [stop_log EXCEPT ![cid] = TRUE]
                   /\ metadata' = [metadata EXCEPT ![cid].running = FALSE]
              ELSE UNCHANGED <<channels, wthreads, stop_log, metadata>>
    /\ UNCHANGED <<global_bitrate, selected_nic, state_file, files, orphans, transcode_jobs>>
    /\ UNCHANGED <<settingsVars, last_call>>

\* StreamManager.start_transcode called with callbacks that take the keywords
\* _run passes (fps=, speed=).
LaunchApi(j, cid, codec) ==
    /\ NextJobId(j)
    /\ jobs' = [jobs EXCEPT ![j] =
           [NoJob EXCEPT !.lpc = "cancel", !.kind = "api", !.cid = cid, !.codec = codec]]
    /\ UNCHANGED <<regVars, workerVars, transcode_jobs>>
    /\ UNCHANGED <<settingsVars, last_call>>

\* start_transcode: self.cancel_transcode(cid)
StartTranscodeCancel(j) ==
    /\ jobs[j].lpc = "cancel"
    /\ jobs' = [CancelledJobs(jobs, transcode_jobs, jobs[j].cid) EXCEPT ![j].lpc = "install"]
    /\ transcode_jobs' = Popped(transcode_jobs, jobs[j].cid)
    /\ UNCHANGED <<regVars, workerVars>>
    /\ UNCHANGED <<settingsVars, last_call>>

\* start_transcode: job = TranscodeJob(...); self.transcode_jobs[cid] = job
StartTranscodeInstall(j) ==
    /\ jobs[j].lpc = "install"
    /\ transcode_jobs' = [transcode_jobs EXCEPT ![jobs[j].cid] = j]
    /\ jobs' = [jobs EXCEPT ![j].lpc = "start"]
    /\ UNCHANGED <<regVars, workerVars>>
    /\ UNCHANGED <<settingsVars, last_call>>

\* start_transcode: job.start(...): TranscodeJob.start
StartTranscodeStart(j) ==
    /\ jobs[j].lpc = "start"
    /\ jobs' = [jobs EXCEPT ![j].lpc = "done", ![j].active = TRUE, ![j].pc = "probe"]
    /\ UNCHANGED <<regVars, workerVars, transcode_jobs>>
    /\ UNCHANGED <<settingsVars, last_call>>

\* StreamManager.cancel_transcode(cid), called on its own.
CancelTranscode(cid) ==
    /\ transcode_jobs[cid] # 0
    /\ jobs' = CancelledJobs(jobs, transcode_jobs, cid)
    /\ transcode_jobs' = Popped(transcode_jobs, cid)
    /\ UNCHANGED <<regVars, workerVars>>
    /\ UNCHANGED <<settingsVars, last_call>>

(***************************************************************************)
(* TranscodeJob._run.                                                      *)
(***************************************************************************)
Durations == {0, 2}

\* out_time_us of a progress block
UsValues == {1000000, 3000000}

Min(a, b) == IF a <= b THEN a ELSE b

\* pct of a progress block, without the cap.
PctUncapped(duration, us) ==
    IF duration > 0 /\ us > 0
    THEN (us * 100) \div (duration * UsPerSecond)
    ELSE 0

\* pct of a progress block
Pct(duration, us) ==
    IF duration > 0 /\ us > 0
    THEN Min(PctCap, (us * 100) \div (duration * UsPerSecond))
    ELSE 0

\* time.time() - start_ts when a block is read, in seconds
ElapsedSecs == {4}

\* eta of a progress block
Eta(duration, us, elapsed) ==
    IF duration > 0 /\ us > 0
    THEN LET pct == Pct(duration, us)
         IN  IF pct > 0 THEN (elapsed * (PctFinal - pct)) \div pct ELSE 0
    ELSE 0

\* duration = probe_duration(self.src); self.process = subprocess.Popen(...)
JobSpawn(j, duration) ==
    /\ jobs[j].pc = "probe"
    /\ jobs' = [jobs EXCEPT ![j].pc = "read", ![j].process = "alive", ![j].duration = duration]
    /\ files' = files \cup {TransPath(jobs[j].cid, jobs[j].name)}
    /\ UNCHANGED <<channels, metadata, global_bitrate, selected_nic, state_file,
                   workerVars, transcode_jobs>>
    /\ UNCHANGED <<settingsVars, last_call>>

\* Popen raises (ProcessLaunchError): control goes to the except clause.
JobSpawnFail(j) ==
    /\ jobs[j].pc = "probe"
    /\ jobs' = [jobs EXCEPT ![j].pc = "on_error"]
    /\ UNCHANGED <<regVars, workerVars, transcode_jobs>>
    /\ UNCHANGED <<settingsVars, last_call>>

\* The child runs to its end, with exit code rc.
JobChildExit(j, rc) ==
    /\ jobs[j].process = "alive"
    /\ jobs' = [jobs EXCEPT ![j].process = "exited", ![j].rc = rc]
    /\ UNCHANGED <<regVars, workerVars, transcode_jobs>>
    /\ UNCHANGED <<settingsVars, last_call>>

\* One progress block is read: the loop tests self.active, then computes pct.
JobReadBlock(j, us) ==
    /\ jobs[j].pc = "read"
    /\ jobs[j].process = "alive"
    /\ jobs[j].nread < MaxBlocks
    /\ \E elapsed \in ElapsedSecs :
          jobs' = [jobs EXCEPT
                      ![j].nread = @ + 1,
                      ![j].pc = IF jobs[j].active THEN "tick" ELSE "wait",
                      ![j].pct = IF jobs[j].active THEN Pct(jobs[j].duration, us) ELSE 0,
                      ![j].eta = IF jobs[j].active THEN Eta(jobs[j].duration, us, elapsed)
                                 ELSE 0]
    /\ UNCHANGED <<regVars, workerVars, transcode_jobs>>
    /\ UNCHANGED <<settingsVars, last_call>>

\* on_progress(self.cid, pct, eta, fps=fps, speed=speed): the callbacks of the
\* upload and retranscode paths take (cid, pct, eta_secs=0), so the call raises
\* TypeError and control goes to the except clause.
JobTick(j) ==
    /\ jobs[j].pc = "tick"
    /\ jobs' = IF jobs[j].kind = "api"
               THEN [jobs EXCEPT ![j].pc = "read", ![j].pct = 0, ![j].eta = 0,
                                 ![j].log = Append(jobs[j].log,
                                     Tick(jobs[j].pct, jobs[j].eta, jobs[j].codec))]
               ELSE [jobs EXCEPT ![j].pc = "on_error", ![j].pct = 0, ![j].eta = 0]
    /\ UNCHANGED <<regVars, workerVars, transcode_jobs>>
    /\ UNCHANGED <<settingsVars, last_call>>

\* The child's stdout ends.
JobEOF(j) ==
    /\ jobs[j].pc = "read"
    /\ jobs[j].process = "exited"
    /\ jobs' = [jobs EXCEPT ![j].pc = "wait"]
    /\ UNCHANGED <<regVars, workerVars, transcode_jobs>>
    /\ UNCHANGED <<settingsVars, last_call>>

\* self.process.wait(); rc = returncode; the tests of rc and self.active
JobWait(j) ==
    /\ jobs[j].pc = "wait"
    /\ jobs[j].process = "exited"
    /\ jobs' = [jobs EXCEPT ![j].pc =
           IF jobs[j].rc = 0 /\ jobs[j].active THEN "final_tick"
           ELSE IF jobs[j].active THEN "on_error"
           ELSE "finally"]
    /\ UNCHANGED <<regVars, workerVars, transcode_jobs>>
    /\ UNCHANGED <<settingsVars, last_call>>

\* on_progress(self.cid, 100, 0)
JobFinalTick(j) ==
    /\ jobs[j].pc = "final_tick"
    /\ jobs' = [jobs EXCEPT ![j].pc = "on_complete",
                            ![j].log = Logged(jobs[j], "on_progress", PctFinal, jobs[j].codec)]
    /\ UNCHANGED <<regVars, workerVars, transcode_jobs>>
    /\ UNCHANGED <<settingsVars, last_call>>

\* on_complete(self.cid, self.dst): the upload and retranscode callbacks register
\* the prepared file and emit channel_ready; retranscode restarts a stream it
\* stopped.
JobComplete(j) ==
    /\ jobs[j].pc = "on_complete"
    /\ jobs' = [jobs EXCEPT ![j].pc = "finally",
                            ![j].log = Logged(jobs[j], "on_complete", 0, jobs[j].codec)]
    /\ IF jobs[j].kind = "api"
       THEN UNCHANGED <<channels, metadata, state_file, wthreads, stop_log>>
       ELSE LET cid == jobs[j].cid
                dst == TransPath(cid, jobs[j].name)
                added == AddedChannel(channels, metadata, global_bitrate, selected_nic,
                                      FreshObj, cid, dst, TRUE)
                meta == AddedMeta(metadata, global_bitrate, cid, dst, jobs[j].name, TRUE,
                                  jobs[j].src_path, jobs[j].codec, DefaultPreset,
                                  DefaultVbitrate, DefaultAbitrate)
                restart == jobs[j].kind = "retranscode" /\ jobs[j].was_running /\ ~added.running
            IN  /\ restart => FreeThreads # {}
                /\ channels' = [channels EXCEPT ![cid] =
                       IF jobs[j].kind = "retranscode" /\ jobs[j].was_running
                       THEN [added EXCEPT !.nic = selected_nic, !.running = TRUE]
                       ELSE added]
                /\ metadata' = [metadata EXCEPT ![cid] =
                       IF jobs[j].kind = "retranscode" /\ jobs[j].was_running
                       THEN [meta EXCEPT !.running = TRUE]
                       ELSE meta]
                /\ state_file' = StateDoc([metadata EXCEPT ![cid] = meta], global_bitrate, selected_nic)
                /\ wthreads' = IF restart
                               THEN [wthreads EXCEPT ![NewThread] =
                                        [pc |-> "spawn", cid |-> cid, obj |-> added.obj, child |-> "none"]]
                               ELSE wthreads
                /\ stop_log' = IF restart THEN [stop_log EXCEPT ![cid] = FALSE] ELSE stop_log
    /\ UNCHANGED <<global_bitrate, selected_nic, files, orphans, transcode_jobs>>
    /\ UNCHANGED <<settingsVars, last_call>>

\* on_error(self.cid, msg), from the nonzero-exit branch or the except clause
JobError(j) ==
    /\ jobs[j].pc = "on_error"
    /\ jobs' = [jobs EXCEPT ![j].pc = "finally",
                            ![j].log = Logged(jobs[j], "on_error", 0, jobs[j].codec)]
    /\ UNCHANGED <<regVars, workerVars, transcode_jobs>>
    /\ UNCHANGED <<settingsVars, last_call>>

\* finally: self.active = False
JobFinally(j) ==
    /\ jobs[j].pc = "finally"
    /\ jobs' = [jobs EXCEPT ![j].pc = "done", ![j].active = FALSE]
    /\ UNCHANGED <<regVars, workerVars, transcode_jobs>>
    /\ UNCHANGED <<settingsVars, last_call>>

(***************************************************************************)
(* The transcode specification: jobs of one channel started through        *)
(* start_transcode with callbacks that accept what _run passes.            *)
(***************************************************************************)
ExitCodes == {0, 1}

NextJob ==
    \/ \E j \in JobIds : LaunchApi(j, WorkerCid, default_codec)
    \/ \E j \in JobIds : StartTranscodeCancel(j)
    \/ \E j \in JobIds : StartTranscodeInstall(j)
    \/ \E j \in JobIds : StartTranscodeStart(j)
    \/ CancelTranscode(WorkerCid)
    \/ \E j \in JobIds, duration \in Durations : JobSpawn(j, duration)
    \/ \E j \in JobIds : JobSpawnFail(j)
    \/ \E j \in JobIds, rc \in ExitCodes : JobChildExit(j, rc)
    \/ \E j \in JobIds, us \in UsValues : JobReadBlock(j, us)
    \/ \E j \in JobIds : JobTick(j)
    \/ \E j \in JobIds : JobEOF(j)
    \/ \E j \in JobIds : JobWait(j)
    \/ \E j \in JobIds : JobFinalTick(j)
    \/ \E j \in JobIds : JobComplete(j)
    \/ \E j \in JobIds : JobError(j)
    \/ \E j \in JobIds : JobFinally(j)

SpecJob == Init /\ [][NextJob]_vars

(***************************************************************************)
(* The upload specification: jobs of one channel started by the upload     *)
(* pipeline and by the retranscode request, with the callbacks they        *)
(* install.                                                                *)
(***************************************************************************)
UploadDurations == {2}

UploadUsValues == {1000000}

NextUpload ==
    \/ \E j \in JobIds, name \in Names, codec \in Codecs, remux \in BOOLEAN, overwrite \in BOOLEAN :
           LaunchUpload(j, WorkerCid, name, codec, remux, overwrite)
    \/ \E j \in JobIds, codec \in Codecs : LaunchRetranscode(j, WorkerCid, codec)
    \/ Start(WorkerCid)
    \/ \E j \in JobIds : StartTranscodeCancel(j)
    \/ \E j \in JobIds : StartTranscodeInstall(j)
    \/ \E j \in JobIds : StartTranscodeStart(j)
    \/ CancelTranscode(WorkerCid)
    \/ \E j \in JobIds, duration \in UploadDurations : JobSpawn(j, duration)
    \/ \E j \in JobIds : JobSpawnFail(j)
    \/ \E j \in JobIds, rc \in ExitCodes : JobChildExit(j, rc)
    \/ \E j \in JobIds, us \in UploadUsValues : JobReadBlock(j, us)
    \/ \E j \in JobIds : JobTick(j)
    \/ \E j \in JobIds : JobEOF(j)
    \/ \E j \in JobIds : JobWait(j)
    \/ \E j \in JobIds : JobFinalTick(j)
    \/ \E j \in JobIds : JobComplete(j)
    \/ \E j \in JobIds : JobError(j)
    \/ \E j \in JobIds : JobFinally(j)

SpecUpload == Init /\ [][NextUpload]_vars

(***************************************************************************)
(* Global settings: StreamManager.apply_global_bitrate and set_nic, and    *)
(* the requests POST /api/settings/global and POST /api/global_transcode.  *)
(***************************************************************************)
\* apply_global_bitrate: the loop over the channels
BitrateApplied(chs, md, gb) ==
    [c \in Cids |->
        IF HasChannel(chs, c) /\ ~Get(md[c], "pre_transcoded", FALSE)
        THEN [chs[c] EXCEPT !.bitrate = gb]
        ELSE chs[c]]

BitrateMeta(chs, md, gb) ==
    [c \in Cids |->
        IF HasChannel(chs, c) /\ HasMeta(md, c)
        THEN [k \in (DOMAIN md[c]) \cup {"bitrate"} |->
                 IF k = "bitrate" THEN Or(gb, "") ELSE md[c][k]]
        ELSE md[c]]

\* set_nic: the loop over the channels
NicApplied(chs, nic) ==
    [c \in Cids |-> IF HasChannel(chs, c) THEN [chs[c] EXCEPT !.nic = nic] ELSE chs[c]]

ApplyGlobalBitrate(bitrate) ==
    /\ global_bitrate' = Or(bitrate, None)
    /\ channels' = BitrateApplied(channels, metadata, global_bitrate')
    /\ metadata' = BitrateMeta(channels, metadata, global_bitrate')
    /\ state_file' = StateDoc(metadata', global_bitrate', selected_nic)
    /\ last_call' = [op |-> "apply_global_bitrate"]
    /\ UNCHANGED <<selected_nic, files, workerVars, jobVars, settingsVars>>

SetNic(nic) ==
    /\ selected_nic' = Or(nic, None)
    /\ channels' = NicApplied(channels, selected_nic')
    /\ state_file' = StateDoc(metadata, global_bitrate, selected_nic')
    /\ last_call' = [op |-> "set_nic"]
    /\ UNCHANGED <<metadata, global_bitrate, files, workerVars, jobVars, settingsVars>>

\* Directories that exist (os.path.isdir).
Dirs == {default_media_path, "/mnt/media"}

\* POST /api/settings/global with body d.  The keys are handled in the order
\* bitrate, media_path, nic, monitor_nic, auto_start; a media_path that is no
\* directory ends the request with 400 after the bitrate was applied.
GlobalSettings(d) ==
    LET bad == "media_path" \in DOMAIN d /\ d.media_path # "" /\ d.media_path \notin Dirs
        gb1 == IF "bitrate" \in DOMAIN d THEN Or(d.bitrate, None) ELSE global_bitrate
        chs1 == IF "bitrate" \in DOMAIN d
                THEN BitrateApplied(channels, metadata, gb1) ELSE channels
        md1 == IF "bitrate" \in DOMAIN d
               THEN BitrateMeta(channels, metadata, gb1) ELSE metadata
        mp1 == IF "media_path" \in DOMAIN d /\ d.media_path # "" /\ ~bad
               THEN d.media_path ELSE media_path
        nic1 == IF "nic" \in DOMAIN d /\ ~bad THEN Or(d.nic, None) ELSE selected_nic
        chs2 == IF "nic" \in DOMAIN d /\ ~bad THEN NicApplied(chs1, nic1) ELSE chs1
        mon1 == IF "monitor_nic" \in DOMAIN d /\ ~bad THEN d.monitor_nic ELSE monitor_nic
        auto1 == IF "auto_start" \in DOMAIN d /\ ~bad THEN d.auto_start ELSE auto_start
        saved_late == ~bad /\ (DOMAIN d) \cap {"nic", "monitor_nic", "auto_start"} # {}
    IN  /\ global_bitrate' = gb1
        /\ channels' = chs2
        /\ metadata' = md1
        /\ media_path' = mp1
        /\ selected_nic' = nic1
        /\ monitor_nic' = mon1
        /\ auto_start' = auto1
        /\ state_file' =
             IF saved_late
             THEN StateDocOf(md1, gb1, nic1, mon1, mp1, auto1, global_tc)
             ELSE IF "bitrate" \in DOMAIN d
                  THEN StateDocOf(md1, gb1, selected_nic, monitor_nic, media_path,
                                  auto_start, global_tc)
                  ELSE state_file
        /\ last_call' = [op |-> "global_settings", rejected |-> bad]
        /\ UNCHANGED <<global_tc, files, workerVars, jobVars>>

\* POST /api/global_transcode with body d: GLOBAL_TC is updated and
\* _persist_global_tc saves.  With d empty this is also the save app.py does
\* at startup when lavacast_channels.json is absent.
GlobalTranscode(d) ==
    /\ global_tc' = [k \in DOMAIN global_tc |-> IF k \in DOMAIN d THEN d[k] ELSE global_tc[k]]
    /\ state_file' = StateDocOf(metadata, global_bitrate, selected_nic, monitor_nic,
                                media_path, auto_start, global_tc')
    /\ last_call' = [op |-> "global_transcode"]
    /\ UNCHANGED <<channels, metadata, global_bitrate, selected_nic, files,
                   monitor_nic, auto_start, media_path, workerVars, jobVars>>

\* StreamManager.add_channel called directly.
AddChannel(cid, filepath, filename, pre_transcoded) ==
    /\ channels' = [channels EXCEPT ![cid] =
           AddedChannel(channels, metadata, global_bitrate, selected_nic, FreshObj,
                        cid, filepath, pre_transcoded)]
    /\ metadata' = [metadata EXCEPT ![cid] =
           AddedMeta(metadata, global_bitrate, cid, filepath, filename, pre_transcoded,
                     filepath, "copy", DefaultPreset, "6M", DefaultAbitrate)]
    /\ state_file' = StateDoc(metadata', global_bitrate, selected_nic)
    /\ last_call' = [op |-> "add_channel", cid |-> cid,
                     created |-> ~HasChannel(channels, cid),
                     ret |-> <<_auto_ip(cid), _auto_port(cid)>>]
    /\ UNCHANGED <<global_bitrate, selected_nic, files, workerVars, jobVars, settingsVars>>

(***************************************************************************)
(* The settings specification: one channel and the global settings.        *)
(***************************************************************************)
Bitrates == {"", "4M"}

Nics == {"", "eth1"}

SettingsUpdateInputs ==
    {[codec |-> "h265"],
     [bitrate |-> "4M"],
     [nic |-> "eth1"]}

GlobalInputs ==
    {[media_path |-> "/mnt/media"],
     [media_path |-> "/nowhere", bitrate |-> "4M"],
     [monitor_nic |-> "eth1", auto_start |-> TRUE]}

TranscodeInputs == {EmptyDict, [codec |-> "h265"]}

NextSettings ==
    \/ \E name \in Names, overwrite \in BOOLEAN : UploadCopy(WorkerCid, name, overwrite)
    \/ \E name \in Names, pre_transcoded \in BOOLEAN :
           AddChannel(WorkerCid, OrigPath(name), name, pre_transcoded)
    \/ \E kw \in SettingsUpdateInputs : UpdateChannel(WorkerCid, kw)
    \/ Start(WorkerCid)
    \/ Stop(WorkerCid)
    \/ \E bitrate \in Bitrates : ApplyGlobalBitrate(bitrate)
    \/ \E nic \in Nics : SetNic(nic)
    \/ \E d \in GlobalInputs : GlobalSettings(d)
    \/ \E d \in TranscodeInputs : GlobalTranscode(d)
    \/ Restart

SpecSettings == Init /\ [][NextSettings]_vars

(***************************************************************************)
(* Properties.  In a job's log the entries on_progress, on_complete and    *)
(* on_error are the callbacks delivered; with the callbacks of the upload  *)
(* and retranscode paths each of them is also the emission of              *)
(* transcode_progress, channel_ready and transcode_error.                  *)
(***************************************************************************)
Callbacks == {"on_progress", "on_complete", "on_error"}

AppKinds == {"upload", "retranscode"}

Positions(j) == 1 .. Len(jobs[j].log)

HasEntry(j, e) == \E i \in Positions(j) : jobs[j].log[i].e = e

\* The log of job j without the cancel marks.
Delivered(j) == SelectSeq(jobs[j].log, LAMBDA x : x.e # "cancel_returned")

\* Some entry of kind e follows a cancel mark in the log of job j.
AfterCancel(j, e) ==
    \E i \in Positions(j), k \in Positions(j) :
        i < k /\ jobs[j].log[i].e = "cancel_returned" /\ jobs[j].log[k].e = e

\* C1: in every reachable state the (ip, port) pairs of the channels whose
\* worker is running are pairwise distinct.
C1_RunningAddressesDistinct ==
    \A c \in Cids, d \in Cids :
        (c # d /\ is_running(channels, c) /\ is_running(channels, d))
            => <<channels[c].ip, channels[c].port>> # <<channels[d].ip, channels[d].port>>

\* C2: after cancel() has returned on a job, none of the job's on_progress,
\* on_complete or on_error callbacks is invoked.
C2_NoCallbackAfterCancel ==
    \A j \in JobIds : \A e \in Callbacks : ~AfterCancel(j, e)

\* C3: in every reachable state each cid has at most one job with active = true.
C3_OneActiveJobPerCid ==
    \A c \in Cids : Cardinality({j \in JobIds : jobs[j].cid = c /\ jobs[j].active}) <= 1

\* C4: once stop(cid) has returned and until a new start(), no streaming child
\* of that channel's worker is alive.
C4_NoChildAfterStop ==
    \A c \in Cids : \A t \in ThreadIds :
        (stop_log[c] /\ HasChannel(channels, c) /\ wthreads[t].obj = channels[c].obj)
            => wthreads[t].child # "alive"

\* C5: once cancel_transcode(cid) has returned, the cancelled job's child
\* process is not running, whether it was spawned before the cancel or not.
C5_NoChildAfterCancel ==
    \A j \in JobIds : HasEntry(j, "cancel_returned") => jobs[j].process # "alive"

\* C6: a job on which cancel() has been called never invokes on_error afterwards.
C6_NoErrorAfterCancel ==
    \A j \in JobIds : ~AfterCancel(j, "on_error")

\* C7: when a second transcode with different settings is launched for the cid
\* of a first one, no transcode_error is emitted for the first job once the
\* second launch has cancelled it, and the second job, never cancelled and its
\* child exited with code 0, ends with on_complete and a channel_ready carrying
\* its own settings.
C7_SecondLaunchReplacesFirst ==
    \A j1 \in JobIds, j2 \in JobIds :
        (/\ j1 < j2
         /\ jobs[j1].kind \in AppKinds /\ jobs[j2].kind \in AppKinds
         /\ jobs[j1].cid = jobs[j2].cid
         /\ jobs[j1].codec # jobs[j2].codec)
        => /\ ~AfterCancel(j1, "on_error")
           /\ (/\ jobs[j2].pc = "done"
               /\ jobs[j2].process = "exited" /\ jobs[j2].rc = 0
               /\ ~HasEntry(j2, "cancel_returned"))
              => /\ Len(jobs[j2].log) > 0
                 /\ jobs[j2].log[Len(jobs[j2].log)] = Entry("on_complete", 0, jobs[j2].codec)

\* C8: a job of the upload or retranscode path that is never cancelled and
\* whose child has exited delivers, on exit code 0, a final on_progress tick
\* with pct = 100 and then on_complete, once and with no on_error; on a nonzero
\* exit code it delivers on_error once and never on_complete.
C8_TerminalCallbacks ==
    \A j \in JobIds :
        (/\ jobs[j].kind \in AppKinds
         /\ jobs[j].pc = "done"
         /\ jobs[j].process = "exited"
         /\ ~HasEntry(j, "cancel_returned"))
        => LET cb == SelectSeq(jobs[j].log, LAMBDA x : x.e \in Callbacks)
           IN  IF jobs[j].rc = 0
               THEN cb = <<Entry("on_progress", PctFinal, jobs[j].codec),
                           Entry("on_complete", 0, jobs[j].codec)>>
               ELSE cb = <<Entry("on_error", 0, jobs[j].codec)>>

\* C9: among the events of one upload on the transcode or remux path, every
\* transcode_progress comes after the job's transcode_start and none comes
\* after its channel_ready.
C9_UploadEventOrder ==
    \A j \in JobIds :
        jobs[j].kind = "upload" =>
            \A i \in Positions(j) :
                jobs[j].log[i].e = "on_progress" =>
                    /\ \E k \in 1 .. (i - 1) : jobs[j].log[k].e = "transcode_start"
                    /\ \A k \in 1 .. (i - 1) : jobs[j].log[k].e # "on_complete"

\* An upload has emitted transcode_start, a transcode_progress and channel_ready.
C9_UploadReady ==
    \E j \in JobIds :
        /\ jobs[j].kind = "upload"
        /\ Len(Delivered(j)) = 3
        /\ Delivered(j)[1].e = "transcode_start"
        /\ Delivered(j)[2] = Entry("on_progress", PctFinal, jobs[j].codec)
        /\ Delivered(j)[3].e = "on_complete"

\* C10: within one job the pct values passed to on_progress never decrease.
C10_ProgressMonotonic ==
    \A j \in JobIds : \A i \in Positions(j), k \in Positions(j) :
        (i < k /\ jobs[j].log[i].e = "on_progress" /\ jobs[j].log[k].e = "on_progress")
            => jobs[j].log[i].pct <= jobs[j].log[k].pct

\* C11: every worker whose pre_transcoded flag is true builds a stream-copy
\* command, with no rate arguments, whatever bitrate cap was applied.
C11_PreTranscodedCopies ==
    \A c \in Cids :
        (HasChannel(channels, c) /\ channels[c].pre_transcoded)
            => /\ _build_cmd(channels[c]).vcodec = "copy"
               /\ _build_cmd(channels[c]).rate = None

\* A pre-transcoded worker carries a bitrate cap while a global cap is set.
C11_CappedPreTranscoded ==
    \E c \in Cids :
        /\ HasChannel(channels, c)
        /\ channels[c].pre_transcoded
        /\ channels[c].bitrate = "4M"
        /\ global_bitrate = "4M"

\* Keyword sets that carry profile keys only.
ProfileInputs == {kw \in SettingsUpdateInputs : DOMAIN kw \subseteq _TC}

\* C12: update_channel called with profile keys only returns false and leaves
\* the worker (running flag, child handle, network settings) and every worker
\* thread as they were.
C12_ProfileUpdateLeavesWorker ==
    [][\A cid \in Cids : \A kw \in ProfileInputs :
          UpdateChannel(cid, kw) =>
              /\ last_call'.was = FALSE
              /\ channels'[cid] = channels[cid]
              /\ wthreads' = wthreads]_vars

\* update_channel with profile keys only has returned false on a running worker,
\* which is still running.
C12_ProfileUpdateWhileRunning ==
    /\ last_call.op = "update_channel"
    /\ DOMAIN last_call.kw \subseteq _TC
    /\ last_call.running
    /\ ~last_call.was
    /\ is_running(channels, last_call.cid)
    /\ metadata[last_call.cid]["codec"] = last_call.kw["codec"]

\* C13: after update_channel(cid, **kw) on a registered cid every key of kw is
\* stored with its new value in the channel's metadata and in the state file.
C13_UpdatePersistsEveryKey ==
    [][\A cid \in Cids : \A kw \in SettingsUpdateInputs :
          UpdateChannel(cid, kw) =>
              \A k \in DOMAIN kw :
                  /\ k \in DOMAIN metadata'[cid]
                  /\ metadata'[cid][k] = kw[k]
                  /\ IsDoc(state_file')
                  /\ k \in DOMAIN DocChannels(state_file')[cid]
                  /\ DocChannels(state_file')[cid][k] = kw[k]]_vars

\* The state file holds the current value of every global setting.
GlobalsPersisted ==
    /\ IsDoc(state_file)
    /\ state_file.global_transcode = global_tc
    /\ state_file.global_streaming =
           [global_bitrate |-> Or(global_bitrate, ""), selected_nic |-> Or(selected_nic, ""),
            monitor_nic |-> monitor_nic, media_path |-> media_path,
            auto_start |-> auto_start]

\* A runtime change of a global setting.
GlobalChange ==
    \/ \E bitrate \in Bitrates : ApplyGlobalBitrate(bitrate)
    \/ \E nic \in Nics : SetNic(nic)
    \/ \E d \in GlobalInputs : GlobalSettings(d)
    \/ \E d \in TranscodeInputs : GlobalTranscode(d)

\* C14: when a runtime change of a global setting has completed, the state
\* file holds the new value.
C14_GlobalChangePersists == [][GlobalChange => GlobalsPersisted']_vars

(***************************************************************************)
(* Startup on a state file found on disk.                                  *)
(***************************************************************************)
\* A channel entry as _save_state writes it for a channel added by add_channel.
SavedEntry(cid, filepath, pre_transcoded) ==
    _clean(AddedMeta([c \in Cids |-> NoMeta], None, cid, filepath, "a", pre_transcoded,
                     filepath, default_codec, DefaultPreset, DefaultVbitrate, DefaultAbitrate))

\* Entries a document can hold for one cid: a channel whose file may or may
\* not exist, a channel with an empty filepath, an entry that is no object.
LoadEntries(cid) ==
    {SavedEntry(cid, OrigPath("a"), FALSE),
     [SavedEntry(cid, OrigPath("a"), FALSE) EXCEPT !.filepath = NoPath],
     MalformedEntry}

LoadChannels ==
    UNION {[S -> UNION {LoadEntries(c) : c \in S}] : S \in SUBSET Cids}

WellKeyed(chs) == \A c \in DOMAIN chs : chs[c] \in LoadEntries(c)

\* The sectioned format, as _save_state writes it.
SectionedDoc(gb, nic, mp, chs) ==
    [global_transcode |-> default_tc,
     global_streaming |-> [global_bitrate |-> gb, selected_nic |-> nic, monitor_nic |-> "",
                           media_path |-> mp, auto_start |-> FALSE],
     channels |-> chs]

\* The older flat format.
FlatDoc(gb, nic, mp, chs) ==
    [global_bitrate |-> gb, selected_nic |-> nic, media_path |-> mp, channels |-> chs]

IsFlat(doc) == IsDoc(doc) /\ "global_streaming" \notin DOMAIN doc

\* The sectioned document that carries the values of a flat one.
Sectioned(doc) ==
    SectionedDoc(doc.global_bitrate, doc.selected_nic, doc.media_path, doc.channels)

LoadDocs ==
    {NoFile, Unreadable("io_error"), Unreadable("invalid_json")}
    \cup {SectionedDoc(gb, nic, "/mnt/media", chs) :
            gb \in Bitrates, nic \in Nics, chs \in {f \in LoadChannels : WellKeyed(f)}}
    \cup {FlatDoc(gb, nic, "/mnt/media", chs) :
            gb \in Bitrates, nic \in Nics, chs \in {f \in LoadChannels : WellKeyed(f)}}

LoadFiles == {{}, {OrigPath("a")}}

\* The process is about to start: the manager is not constructed yet.
InitLoad ==
    /\ channels = [c \in Cids |-> NoChannel]
    /\ metadata = [c \in Cids |-> NoMeta]
    /\ transcode_jobs = [c \in Cids |-> 0]
    /\ global_bitrate = None
    /\ selected_nic = None
    /\ state_file \in LoadDocs
    /\ files \in LoadFiles
    /\ wthreads = [t \in ThreadIds |-> NoThread]
    /\ orphans = [o \in ObjIds |-> NoChannel]
    /\ stop_log = [c \in Cids |-> FALSE]
    /\ jobs = [j \in JobIds |-> NoJob]
    /\ monitor_nic = ""
    /\ auto_start = FALSE
    /\ media_path = default_media_path
    /\ global_tc = default_tc
    /\ last_call = NoCall

\* The server answers requests: it was constructed, construction did not
\* raise, and it did not die since.
Serving ==
    /\ last_call.op \notin {"none", "crash"}
    /\ ~(last_call.op = "restart" /\ last_call.raised)

\* app.py at import, right after the manager is constructed: the marker file
\* lavacast_channels.json is absent, so _persist_global_tc() saves the state.
Bootstrap ==
    /\ last_call.op = "restart"
    /\ ~last_call.raised
    /\ state_file' = StateDoc(metadata, global_bitrate, selected_nic)
    /\ last_call' = [op |-> "bootstrap", loaded |-> state_file]
    /\ UNCHANGED <<channels, metadata, global_bitrate, selected_nic, files>>
    /\ UNCHANGED <<workerVars, jobVars, settingsVars>>

RegisteredCids == {c \in Cids : HasChannel(channels, c)}

\* Variant of StartAll that starts the first registered channel only.
StartFirst ==
    /\ RegisteredCids # {}
    /\ LET cid == CHOOSE c \in RegisteredCids : \A d \in RegisteredCids : c <= d
       IN  /\ IF channels[cid].running
              THEN UNCHANGED <<channels, wthreads, stop_log>>
              ELSE /\ FreeThreads # {}
                   /\ channels' = [channels EXCEPT ![cid].running = TRUE]
                   /\ wthreads' = [wthreads EXCEPT ![NewThread] =
                          [pc |-> "spawn", cid |-> cid, obj |-> channels[cid].obj,
                           child |-> "none"]]
                   /\ stop_log' = [stop_log EXCEPT ![cid] = FALSE]
           /\ metadata' = [metadata EXCEPT ![cid].running = TRUE]
           /\ last_call' = [op |-> "start_all",
                            count |-> IF channels[cid].running THEN 0 ELSE 1]
    /\ UNCHANGED <<global_bitrate, selected_nic, state_file, files, orphans, jobVars>>
    /\ UNCHANGED settingsVars

\* StreamManager.start_all: start(cid) for every registered cid, in order.
\* Each channel that is not running takes the lowest free thread slot.
StartAll ==
    LET need == {c \in RegisteredCids : ~channels[c].running}
    IN  /\ Cardinality(FreeThreads) >= Cardinality(need)
        /\ LET slot == CHOOSE f \in [need -> FreeThreads] :
                          /\ \A a, b \in need : a < b => f[a] < f[b]
                          /\ \A t \in FreeThreads :
                                (\E c \in need : f[c] = t) \/ (\A c \in need : f[c] < t)
               owner(t) == CHOOSE c \in need : slot[c] = t
           IN  wthreads' = [t \in ThreadIds |->
                   IF \E c \in need : slot[c] = t
                   THEN [pc |-> "spawn", cid |-> owner(t), obj |-> channels[owner(t)].obj,
                         child |-> "none"]
                   ELSE wthreads[t]]
        /\ channels' = [c \in Cids |->
               IF c \in RegisteredCids
               THEN [channels[c] EXCEPT !.nic = selected_nic, !.running = TRUE]
               ELSE channels[c]]
        /\ stop_log' = [c \in Cids |-> IF c \in need THEN FALSE ELSE stop_log[c]]
        /\ metadata' = [c \in Cids |->
               IF c \in RegisteredCids THEN [metadata[c] EXCEPT !.running = TRUE] ELSE metadata[c]]
        /\ last_call' = [op |-> "start_all", count |-> Cardinality(need)]
        /\ UNCHANGED <<global_bitrate, selected_nic, state_file, files, orphans, jobVars>>
        /\ UNCHANGED settingsVars

\* Where the process can die inside _save_state: before open(_STATE_FILE, "w"),
\* between the open, which empties the file, and the end of json.dump, or
\* after the file is closed.
CrashPoints == {"before_open", "in_dump", "after_close"}

\* set_nic(nic) whose _save_state is cut short by the death of the process.
\* The memory of the process is gone; what stays is the file.
CrashInSave(nic, point) ==
    LET new == StateDoc(metadata, global_bitrate, Or(nic, None))
    IN  /\ state_file' = CASE point = "before_open" -> state_file
                           [] point = "in_dump"     -> Unreadable("invalid_json")
                           [] point = "after_close" -> new
        /\ last_call' = [op |-> "crash", previous |-> state_file, new |-> new]
        /\ UNCHANGED <<channels, metadata, global_bitrate, selected_nic, files>>
        /\ UNCHANGED <<workerVars, jobVars, settingsVars>>

NextLoad ==
    \/ Restart
    \/ Serving /\ Bootstrap
    \/ Serving /\ StartAll
    \/ Serving /\ \E nic \in Nics : SetNic(nic)
    \/ Serving /\ \E nic \in Nics, point \in CrashPoints : CrashInSave(nic, point)

SpecLoad == InitLoad /\ [][NextLoad]_vars

(***************************************************************************)
(* Properties of loading and saving the state file.                        *)
(***************************************************************************)
\* A document without the transient channel fields.
Canon(doc) ==
    [doc EXCEPT !.channels = [c \in DOMAIN doc.channels |-> _clean(doc.channels[c])]]

\* A document in the format _save_state writes, every entry an object.
SavedShape(doc) == IsDoc(doc) /\ ~IsFlat(doc) /\ BadCids(doc) = {}

C16_FlatLoadsAsSectioned ==
    [][Restart /\ IsFlat(state_file) =>
        LET doc == Sectioned(state_file)
            ok  == Restorable(doc, files)
        IN  /\ global_bitrate' = LoadedBitrate(doc)
            /\ selected_nic' = LoadedNic(doc)
            /\ media_path' = LoadedMediaPath(doc, default_media_path)
            /\ metadata' = [c \in Cids |-> IF c \in ok THEN LoadedMeta(doc, c) ELSE NoMeta]
            /\ channels' = [c \in Cids |->
                   IF c \in ok THEN LoadedChannel(doc, c, c + 1) ELSE NoChannel]]_vars

\* A flat document with a bitrate cap, a NIC and a channel was loaded.
C16_FlatLoaded ==
    /\ last_call.op = "restart"
    /\ IsFlat(state_file)
    /\ global_bitrate = "4M"
    /\ selected_nic = "eth1"
    /\ media_path = "/mnt/media"
    /\ \E c \in Cids : HasChannel(channels, c) /\ channels[c].bitrate = "4M"

\* cids that have a worker thread
WorkerCids(wt) == {wt[t].cid : t \in {u \in ThreadIds : wt[u].pc # "unused"}}

\* C17: after a restart every restored channel is not running and has no
\* child process, and a following start_all starts a worker for exactly the
\* restored channels.
C17_RestoredThenStartAll ==
    [][/\ Restart =>
            /\ {c \in Cids : HasChannel(channels', c)} = last_call'.restored
            /\ \A c \in last_call'.restored :
                  /\ ~channels'[c].running
                  /\ channels'[c].process = 0
                  /\ metadata'[c].running = FALSE
            /\ WorkerCids(wthreads') = {}
       /\ StartAll /\ WorkerCids(wthreads) = {} =>
            /\ WorkerCids(wthreads') = RegisteredCids
            /\ \A c \in Cids : is_running(channels', c) <=> c \in RegisteredCids]_vars

\* Two channels were restored and start_all started both.
C17_BothRestarted ==
    /\ last_call.op = "start_all"
    /\ last_call.count = NumCids
    /\ WorkerCids(wthreads) = Cids
    /\ \A c \in Cids : channels[c].running

\* C18: on load, a persisted channel whose filepath is empty or names no
\* file is left out of the workers and of the metadata and its skip is
\* logged as a warning; every other persisted channel is restored.
C18_MissingFileSkipped ==
    [][Restart /\ IsDoc(state_file) /\ BadCids(state_file) = {} =>
        \A c \in DOMAIN DocChannels(state_file) :
            LET filepath == Get(DocChannels(state_file)[c], "filepath", NoPath)
            IN  IF filepath = NoPath \/ filepath \notin files
                THEN /\ channels'[c] = NoChannel
                     /\ metadata'[c] = NoMeta
                     /\ c \in last_call'.warned
                ELSE /\ HasChannel(channels', c)
                     /\ HasMeta(metadata', c)
                     /\ c \notin last_call'.warned]_vars

\* One channel of the document was skipped, the other one restored.
C18_OneSkippedOneRestored ==
    /\ last_call.op = "restart"
    /\ ~last_call.raised
    /\ Cardinality(last_call.warned) = 1
    /\ Cardinality(last_call.restored) = 1
    /\ \A c \in last_call.restored : HasChannel(channels, c)

\* A state file that cannot be opened, is not JSON, or holds a channel entry
\* that is no object.
UnreadableAtStartup(f) == "unreadable" \in DOMAIN f \/ (IsDoc(f) /\ BadCids(f) # {})

\* C19: with an unreadable state file, construction completes without
\* raising, registers no channel and leaves the global settings at their
\* configured defaults.
C19_UnreadableStartsEmpty ==
    [][Restart /\ UnreadableAtStartup(state_file) =>
        /\ ~last_call'.raised
        /\ \A c \in Cids : channels'[c] = NoChannel /\ metadata'[c] = NoMeta
        /\ global_bitrate' = None
        /\ selected_nic' = None
        /\ media_path' = default_media_path]_vars

\* C20: after a crash during a state write the file holds the complete
\* previous document or the complete new one.
C20_CrashLeavesCompleteDocument ==
    last_call.op = "crash" => state_file \in {last_call.previous, last_call.new}

(***************************************************************************)
(* Properties of the registry operations.                                  *)
(***************************************************************************)
\* Launchers inside start_transcode, between its first access to the
\* registry maps (transcode_jobs.pop in cancel_transcode) and its last one
\* (transcode_jobs[cid] = job).
InRegistry == {j \in JobIds : jobs[j].lpc = "install"}

\* C21: mutating registry operations called from different threads are
\* mutually exclusive: no two of them are both between their first and their
\* last access to the registry maps.
C21_MutatorsExclusive == Cardinality(InRegistry) <= 1

\* What remove_channel(cid) leaves when it returns.
RemoveReturns(cid) ==
    /\ channels'[cid] = NoChannel
    /\ metadata'[cid] = NoMeta
    /\ transcode_jobs'[cid] = 0
    /\ cid \notin DOMAIN DocChannels(state_file')
    /\ transcode_jobs[cid] # 0 => ~jobs'[transcode_jobs[cid]].active
    /\ HasChannel(channels, cid) =>
            \A t \in ThreadIds : wthreads'[t].obj = channels[cid].obj =>
                /\ wthreads'[t].child # "alive"
                /\ ~orphans'[channels[cid].obj].running
    /\ (~HasChannel(channels, cid) /\ ~HasMeta(metadata, cid) /\ transcode_jobs[cid] = 0) =>
            /\ channels' = channels
            /\ metadata' = metadata
            /\ transcode_jobs' = transcode_jobs

\* No worker of a removed channel has a streaming child.
FormerWorkersStopped ==
    \A t \in ThreadIds : (Live(t) /\ ~Registered(t)) => wthreads[t].child # "alive"

\* C22: after remove_channel(cid) returns, cid is in none of channels,
\* metadata and transcode_jobs, its former worker is not running, its former
\* job is not active and the state file does not list cid; for a cid that was
\* not registered the registry is unchanged.
C22_RemoveDropsChannel ==
    /\ [][\A cid \in Cids : Remove(cid) => RemoveReturns(cid)]_vars
    /\ []FormerWorkersStopped

(***************************************************************************)
(* The fleet specification: every channel with its worker threads, under   *)
(* add_channel, start, stop and start_all.                                 *)
(***************************************************************************)
NextFleet ==
    \/ \E cid \in Cids : AddChannel(cid, OrigPath("a"), "a", FALSE)
    \/ \E cid \in Cids : Start(cid)
    \/ \E cid \in Cids : Stop(cid)
    \/ StartAll
    \/ \E t \in ThreadIds : WSpawn(t)
    \/ \E t \in ThreadIds : WChildExit(t)
    \/ \E t \in ThreadIds : WWait(t)
    \/ \E t \in ThreadIds : WFinish(t)

SpecFleet == Init /\ [][NextFleet]_vars

\* C23: add_channel on a cid that already has a worker changes only the
\* worker's filepath and pre_transcoded flag: its running flag, child
\* process, ip, port, encap, bitrate, loop and nic are unchanged and no child
\* is started or stopped.
C23_AddRebindsWorker ==
    [][\A cid \in Cids, name \in Names, pre_transcoded \in BOOLEAN :
          (AddChannel(cid, OrigPath(name), name, pre_transcoded) /\ HasChannel(channels, cid)) =>
              /\ channels'[cid].filepath = OrigPath(name)
              /\ channels'[cid].pre_transcoded = pre_transcoded
              /\ \A k \in (DOMAIN channels[cid]) \ {"filepath", "pre_transcoded"} :
                    channels'[cid][k] = channels[cid][k]
              /\ wthreads' = wthreads]_vars

\* add_channel has rebound a running worker with a NIC and a bitrate cap.
C23_RunningWorkerRebound ==
    /\ last_call.op = "add_channel"
    /\ ~last_call.created
    /\ channels[last_call.cid].running
    /\ channels[last_call.cid].pre_transcoded
    /\ channels[last_call.cid].nic = "eth1"
    /\ channels[last_call.cid].bitrate = "4M"

\* C24: for every cid, add_channel(cid, ...) returns and records in the
\* channel's metadata ip = multicast_base.((cid mod 254) + 1) and
\* port = base_port + 2*cid, and a worker it creates is bound to that same
\* address.
C24_DeterministicAddress ==
    [][\A cid \in Cids : AddChannel(cid, OrigPath("a"), "a", FALSE) =>
          LET ip   == (cid % IpModulus) + 1
              port == base_port + 2 * cid
          IN  /\ last_call'.ret = <<ip, port>>
              /\ metadata'[cid].ip = ip
              /\ metadata'[cid].port = port
              /\ ~HasChannel(channels, cid) =>
                    channels'[cid].ip = ip /\ channels'[cid].port = port]_vars

\* add_channel has created the worker of a cid other than the first.
C24_SecondChannelCreated ==
    /\ last_call.op = "add_channel"
    /\ last_call.created
    /\ last_call.cid > 0
    /\ HasChannel(channels, last_call.cid)
    /\ channels[last_call.cid].port = last_call.ret[2]

\* What start and stop may not touch when they have nothing to do.
Untouched == channels' = channels /\ metadata' = metadata /\ wthreads' = wthreads

\* C25: start(cid) on a running channel and stop(cid) on a stopped channel
\* change nothing (no second child is spawned, no state changes), and
\* start(cid) or stop(cid) for a cid that is not registered leaves the
\* registry unchanged.
C25_StartStopIdempotent ==
    [][\A cid \in Cids :
          /\ (Start(cid) /\ is_running(channels, cid)) => Untouched
          /\ (Stop(cid) /\ ~is_running(channels, cid)) => Untouched
          /\ ((Start(cid) \/ Stop(cid)) /\ ~HasChannel(channels, cid)) => Untouched]_vars

\* C26: if every registered channel's worker is running, start_all leaves
\* the worker flags and settings, the child processes and the metadata
\* unchanged, spawns no child and logs a launched count of zero.
C26_StartAllOnRunningFleet ==
    [][(StartAll /\ RegisteredCids # {} /\ \A c \in RegisteredCids : channels[c].running) =>
          Untouched /\ last_call'.count = 0]_vars

\* The parts of C25 and C26 about spawning and the logged count.
NoSecondSpawn ==
    [][/\ \A cid \in Cids : (Start(cid) /\ is_running(channels, cid)) =>
                channels' = channels /\ wthreads' = wthreads
       /\ (StartAll /\ \A c \in RegisteredCids : channels[c].running) =>
                channels' = channels /\ wthreads' = wthreads /\ last_call'.count = 0]_vars

(***************************************************************************)
(* transcoder.specs_match.  Frame rates are in thousandths of a frame per  *)
(* second, bitrates in bits per second.                                    *)
(***************************************************************************)
FpsTolerance == 100
HeadroomNum == 12
HeadroomDen == 10

NoSize == <<0, 0>>

\* _RES_MAP.get(resolution)
_RES_MAP(resolution) ==
    CASE resolution = "720p"  -> <<1280, 720>>
      [] resolution = "1080p" -> <<1920, 1080>>
      [] resolution = "1440p" -> <<2560, 1440>>
      [] resolution = "4k"    -> <<3840, 2160>>
      [] OTHER                -> NoSize

\* float(_FPS_FLOAT.get(fps, fps)) for the frame rates of VALID_FPS
TargetFps(fps) ==
    CASE fps = "23.976" -> 23976
      [] fps = "24"     -> 24000
      [] fps = "25"     -> 25000
      [] fps = "29.97"  -> 29970
      [] fps = "30"     -> 30000
      [] fps = "50"     -> 50000
      [] fps = "59.94"  -> 59940
      [] fps = "60"     -> 60000
      [] OTHER          -> 0

\* _parse_bitrate for the literals of the model; 0 for anything else.
_parse_bitrate(s) ==
    CASE s = "8M"   -> 8000000
      [] s = "6M"   -> 6000000
      [] s = "4M"   -> 4000000
      [] s = "192k" -> 192000
      [] s = "128k" -> 128000
      [] OTHER      -> 0

Abs(x) == IF x < 0 THEN 0 - x ELSE x

specs_match(info, codec, resolution, fps, vbitrate, abitrate) ==
    IF info = EmptyDict \/ info.vcodec = None \/ info.vcodec = ""
    THEN FALSE
    ELSE /\ info.vcodec = (IF codec = "h264" THEN "h264" ELSE "hevc")
         /\ Or(info.acodec, "") = "aac"
         /\ resolution # "original" /\ _RES_MAP(resolution) # NoSize
                => <<info.width, info.height>> = _RES_MAP(resolution)
         /\ fps # "original" /\ TargetFps(fps) # 0 /\ info.fps # 0
                => Abs(info.fps - TargetFps(fps)) <= FpsTolerance
         /\ _parse_bitrate(vbitrate) # 0 /\ info.vbitrate_bps # 0
                => info.vbitrate_bps * HeadroomDen <= _parse_bitrate(vbitrate) * HeadroomNum
         /\ _parse_bitrate(abitrate) # 0 /\ info.abitrate_bps # 0
                => info.abitrate_bps * HeadroomDen <= _parse_bitrate(abitrate) * HeadroomNum

\* Records probe_video_info returns: {} on an error, vcodec None when the
\* file has no video stream, 0 for a frame rate or bitrate it could not read.
MatchInfos ==
    {EmptyDict,
     [vcodec |-> None, width |-> 0, height |-> 0, fps |-> 0, vbitrate_bps |-> 0,
      acodec |-> "aac", abitrate_bps |-> 192000]}
    \cup [vcodec : {"h264", "hevc"}, width : {1920}, height : {1080, 720},
          fps : {0, 30000, 30050, 25000}, vbitrate_bps : {0, 9600000, 9600001},
          acodec : {"aac", "mp3", None}, abitrate_bps : {0, 192000, 256000}]

\* Target profiles.
MatchTargets ==
    [codec : {"h264", "h265"}, resolution : {"original", "1080p"}, fps : {"original", "30"},
     vbitrate : {"8M"}, abitrate : {"192k"}]

\* _pipeline has probed the source and is about to call specs_match.
InitMatch ==
    /\ channels = [c \in Cids |-> NoChannel]
    /\ metadata = [c \in Cids |-> NoMeta]
    /\ transcode_jobs = [c \in Cids |-> 0]
    /\ global_bitrate = None
    /\ selected_nic = None
    /\ state_file = NoFile
    /\ files = {}
    /\ wthreads = [t \in ThreadIds |-> NoThread]
    /\ orphans = [o \in ObjIds |-> NoChannel]
    /\ stop_log = [c \in Cids |-> FALSE]
    /\ jobs = [j \in JobIds |-> NoJob]
    /\ monitor_nic = ""
    /\ auto_start = FALSE
    /\ media_path = default_media_path
    /\ global_tc = default_tc
    /\ last_call \in [op : {"probe_video_info"}, info : MatchInfos, tc : MatchTargets]

\* remux = specs_match(src_info, codec, resolution, fps, vbitrate, abitrate)
SpecsMatch ==
    /\ last_call.op = "probe_video_info"
    /\ last_call' = [op |-> "specs_match", info |-> last_call.info, tc |-> last_call.tc,
                     ret |-> specs_match(last_call.info, last_call.tc.codec,
                                         last_call.tc.resolution, last_call.tc.fps,
                                         last_call.tc.vbitrate, last_call.tc.abitrate)]
    /\ UNCHANGED <<regVars, workerVars, jobVars, settingsVars>>

NextMatch == SpecsMatch

SpecMatch == InitMatch /\ [][NextMatch]_vars

\* The conditions C27 lists, on the arguments of a call.
MatchConditions(info, tc) ==
    /\ info # EmptyDict
    /\ info.vcodec # None
    /\ (tc.codec = "h264" /\ info.vcodec = "h264") \/ (tc.codec = "h265" /\ info.vcodec = "hevc")
    /\ info.acodec = "aac"
    /\ tc.resolution # "original" => <<info.width, info.height>> = _RES_MAP(tc.resolution)
    /\ tc.fps # "original" => Abs(info.fps - TargetFps(tc.fps)) <= FpsTolerance
    /\ info.vbitrate_bps # 0 =>
            info.vbitrate_bps * HeadroomDen <= _parse_bitrate(tc.vbitrate) * HeadroomNum
    /\ info.abitrate_bps # 0 =>
            info.abitrate_bps * HeadroomDen <= _parse_bitrate(tc.abitrate) * HeadroomNum

\* C27: specs_match returns true if and only if the video codec matches the
\* target, the audio codec is aac, the size equals the target's unless the
\* resolution is original, the frame rate is within 0.1 of the target's
\* unless fps is original, and each source bitrate, when known, is at most
\* 1.2 times the target's; an empty record or a missing video codec gives
\* false.
C27_SpecsMatchIff ==
    last_call.op = "specs_match" =>
        (last_call.ret <=> MatchConditions(last_call.info, last_call.tc))

\* C27 on the calls whose source frame rate is known.
SpecsMatchIffKnownFps ==
    (last_call.op = "specs_match" /\ last_call.info # EmptyDict /\ last_call.info.fps # 0) =>
        (last_call.ret <=> MatchConditions(last_call.info, last_call.tc))


(***************************************************************************)
(* The upload and retranscode requests (app.py), from the first line of    *)
(* the route to its response, with the part of the pipeline that runs up   *)
(* to add_channel or to the start_transcode call.                          *)
(***************************************************************************)
max_channels == NumCids


VALID_CODECS == {"copy", "h264", "h265"}
VALID_PRESETS == {"ultrafast", "superfast", "fast", "medium", "slow"}
VALID_RESOLUTIONS == {"original", "720p", "1080p", "1440p", "4k"}
VALID_FPS == {"original", "23.976", "24", "25", "29.97", "30", "50", "59.94", "60"}

\* _BITRATE_RE.match(str(s)): of the strings of this model, the ones of the
\* form digits, optional fraction, one of k K m M.
_BITRATE_RE(s) == s \in {"8M", "6M", "4M", "1.5M", "192k", "128k"}

ALLOWED_EXTENSIONS ==
    {".mp4", ".mkv", ".avi", ".mov", ".ts", ".m2ts",
     ".mp3", ".wav", ".flac", ".aac", ".m4a", ".ogg"}

\* request.form.get(key, GLOBAL_TC[key]) / d.get(key, GLOBAL_TC[key])
Requested(form, gtc) == [k \in DOMAIN gtc |-> Get(form, k, gtc[k])]

\* upload: the "Sanitise" block.
UploadProfile(form, gtc) ==
    LET tc == Requested(form, gtc)
    IN  [codec      |-> IF tc.codec \in VALID_CODECS THEN tc.codec ELSE "copy",
         preset     |-> IF tc.preset \in VALID_PRESETS THEN tc.preset ELSE "fast",
         resolution |-> IF tc.resolution \in VALID_RESOLUTIONS THEN tc.resolution
                        ELSE "original",
         fps        |-> IF tc.fps \in VALID_FPS THEN tc.fps ELSE "original",
         vbitrate   |-> IF _BITRATE_RE(tc.vbitrate) THEN tc.vbitrate ELSE gtc.vbitrate,
         abitrate   |-> IF _BITRATE_RE(tc.abitrate) THEN tc.abitrate ELSE gtc.abitrate]

\* retranscode: the checks after the body is read; the codec is checked by
\* the caller, which answers 400 when it is not valid.
RetranscodeProfile(d, gtc) ==
    LET tc == Requested(d, gtc)
    IN  [codec      |-> tc.codec,
         preset     |-> IF tc.preset \in VALID_PRESETS THEN tc.preset ELSE gtc.preset,
         resolution |-> IF tc.resolution \in VALID_RESOLUTIONS THEN tc.resolution
                        ELSE gtc.resolution,
         fps        |-> IF tc.fps \in VALID_FPS THEN tc.fps ELSE gtc.fps,
         vbitrate   |-> IF _BITRATE_RE(tc.vbitrate) THEN tc.vbitrate ELSE gtc.vbitrate,
         abitrate   |-> IF _BITRATE_RE(tc.abitrate) THEN tc.abitrate ELSE gtc.abitrate]

NoProfile == [absent |-> TRUE]

HttpOk == 200
HttpBadRequest == 400
HttpNotFound == 404
HttpConflict == 409

\* A handler that stops the workers before it validates its input.
RejectedAfterStop(op, status, req) ==
    /\ last_call' = [op |-> op, status |-> status, requested |-> req, tc |-> NoProfile]
    /\ channels' = [c \in Cids |-> IF HasChannel(channels, c)
                                   THEN StoppedChannel(channels[c]) ELSE channels[c]]
    /\ UNCHANGED <<metadata, global_bitrate, selected_nic, state_file, files>>
    /\ UNCHANGED <<workerVars, jobVars, settingsVars>>

\* return jsonify({"error": ...}), status: nothing else happens.
Rejected(op, status, req) ==
    /\ last_call' = [op |-> op, status |-> status, requested |-> req, tc |-> NoProfile]
    /\ UNCHANGED <<regVars, workerVars, jobVars, settingsVars>>

Accepted(op, req, tc) ==
    last_call' = [op |-> op, status |-> HttpOk, requested |-> req, tc |-> tc]

FirstIdleJob == CHOOSE j \in IdleJobs : \A k \in IdleJobs : j <= k

\* POST /api/upload/<cid> with a file name + ext and the form fields.  remux
\* is what specs_match answers for the saved file.
Upload(cid, name, ext, form, overwrite, remux) ==
    LET req == Requested(form, global_tc)
        tc  == UploadProfile(form, global_tc)
    IN  IF ~(0 <= cid /\ cid < max_channels)
        THEN Rejected("upload", HttpBadRequest, req)
        ELSE IF ext \notin ALLOWED_EXTENSIONS
        THEN Rejected("upload", HttpBadRequest, req)
        ELSE IF OrigPath(name) \in files /\ ~overwrite
        THEN Rejected("upload", HttpConflict, req)
        ELSE /\ Accepted("upload", req, tc)
             /\ files' = files \cup {OrigPath(name)}
             /\ IF tc.codec = "copy"
                THEN /\ channels' = [channels EXCEPT ![cid] =
                            AddedChannel(channels, metadata, global_bitrate, selected_nic,
                                         FreshObj, cid, OrigPath(name), FALSE)]
                     /\ metadata' = [metadata EXCEPT ![cid] =
                            AddedMeta(metadata, global_bitrate, cid, OrigPath(name), name,
                                      FALSE, OrigPath(name), "copy", tc.preset,
                                      tc.vbitrate, tc.abitrate)]
                     /\ state_file' = StateDoc(metadata', global_bitrate, selected_nic)
                     /\ UNCHANGED jobs
                ELSE /\ IdleJobs # {}
                     /\ jobs' = [jobs EXCEPT ![FirstIdleJob] =
                            [NoJob EXCEPT !.lpc = "cancel", !.kind = "upload", !.cid = cid,
                                          !.name = name, !.src_path = OrigPath(name),
                                          !.codec = tc.codec,
                                          !.log = <<Entry("transcode_start", 0,
                                                     IF remux THEN "remux" ELSE tc.codec)>>]]
                     /\ UNCHANGED <<channels, metadata, state_file>>
             /\ UNCHANGED <<global_bitrate, selected_nic, workerVars, transcode_jobs>>
             /\ UNCHANGED settingsVars

\* Slots free for a start() that follows a stop() and an add_channel() inside
\* one request.
FreeThreadsIn(wt, chs) ==
    {t \in ThreadIds :
        /\ wt[t].pc = "unused"
        /\ \A c \in Cids : chs[c].process # t
        /\ \A o \in ObjIds : orphans[o].process # t}

\* POST /api/retranscode/<cid> with body d.
Retranscode(cid, d) ==
    LET req == Requested(d, global_tc)
        tc  == RetranscodeProfile(d, global_tc)
    IN  IF cid \notin Cids \/ ~HasMeta(metadata, cid)
        THEN Rejected("retranscode", HttpNotFound, req)
        ELSE IF Get(metadata[cid], "src_path", NoPath) \notin files
        THEN Rejected("retranscode", HttpNotFound, req)
        ELSE IF req.codec \notin VALID_CODECS
        THEN Rejected("retranscode", HttpBadRequest, req)
        ELSE LET was_running == is_running(channels, cid)
                 src   == metadata[cid]["src_path"]
                 chs1  == IF was_running
                          THEN [channels EXCEPT ![cid] = StoppedChannel(channels[cid])]
                          ELSE channels
                 wt1   == IF was_running THEN KilledBy(channels[cid], wthreads) ELSE wthreads
                 md1   == IF was_running THEN [metadata EXCEPT ![cid].running = FALSE]
                          ELSE metadata
                 chs2  == [chs1 EXCEPT ![cid] =
                              AddedChannel(chs1, md1, global_bitrate, selected_nic, FreshObj,
                                           cid, src, FALSE)]
                 md2   == [md1 EXCEPT ![cid] =
                              AddedMeta(md1, global_bitrate, cid, src, metadata[cid]["filename"],
                                        FALSE, src, "copy", tc.preset, tc.vbitrate,
                                        tc.abitrate)]
                 free  == FreeThreadsIn(wt1, chs2)
                 slot  == CHOOSE t \in free : \A u \in free : t <= u
             IN  /\ Accepted("retranscode", req, tc)
                 /\ IF tc.codec = "copy"
                    THEN /\ was_running => free # {}
                         /\ state_file' = StateDoc(md2, global_bitrate, selected_nic)
                         /\ IF was_running
                            THEN /\ channels' = [chs2 EXCEPT ![cid].nic = selected_nic,
                                                             ![cid].running = TRUE]
                                 /\ wthreads' = [wt1 EXCEPT ![slot] =
                                        [pc |-> "spawn", cid |-> cid, obj |-> chs2[cid].obj,
                                         child |-> "none"]]
                                 /\ stop_log' = [stop_log EXCEPT ![cid] = FALSE]
                                 /\ metadata' = [md2 EXCEPT ![cid].running = TRUE]
                            ELSE /\ channels' = chs2
                                 /\ metadata' = md2
                                 /\ UNCHANGED <<wthreads, stop_log>>
                         /\ UNCHANGED jobs
                    ELSE /\ IdleJobs # {}
                         /\ jobs' = [jobs EXCEPT ![FirstIdleJob] =
                                [NoJob EXCEPT !.lpc = "cancel", !.kind = "retranscode",
                                              !.cid = cid,
                                              !.name = metadata[cid]["filename"],
                                              !.src_path = src, !.codec = tc.codec,
                                              !.was_running = was_running,
                                              !.log = <<Entry("transcode_start", 0, tc.codec)>>]]
                         /\ channels' = chs1
                         /\ wthreads' = wt1
                         /\ metadata' = md1
                         /\ stop_log' = IF was_running
                                        THEN [stop_log EXCEPT ![cid] = TRUE] ELSE stop_log
                         /\ UNCHANGED state_file
                 /\ UNCHANGED <<global_bitrate, selected_nic, files, orphans, transcode_jobs>>
                 /\ UNCHANGED settingsVars

\* The requests the model sends.  <int:cid> of the routes: one channel and
\* the first number that is not a channel.
RequestCids == {WorkerCid, max_channels}

CopyForm == [codec |-> "copy"]
EncodeForm == [codec |-> "h265", preset |-> "slow", vbitrate |-> "4M"]
BadCodecForm == [codec |-> "vp9"]
BadFieldsForm ==
    [codec |-> "copy", preset |-> "turbo", resolution |-> "8k", fps |-> "12",
     vbitrate |-> "lots", abitrate |-> "loud"]

RequestForms == {CopyForm, EncodeForm, BadCodecForm, BadFieldsForm}

UploadRequest(cid, ext, form, overwrite, remux) ==
    [cid |-> cid, ext |-> ext, form |-> form, overwrite |-> overwrite, remux |-> remux]

UploadRequests ==
    {UploadRequest(WorkerCid, ".mp4", f, TRUE, FALSE) : f \in RequestForms}
    \cup {UploadRequest(c, ".mp4", CopyForm, TRUE, FALSE) : c \in RequestCids}
    \cup {UploadRequest(WorkerCid, ".mp4", EncodeForm, TRUE, TRUE),
          UploadRequest(WorkerCid, ".exe", CopyForm, TRUE, FALSE),
          UploadRequest(WorkerCid, ".mp4", CopyForm, FALSE, FALSE)}

GlobalProfiles == {[preset |-> "medium", fps |-> "25", vbitrate |-> "6M"]}

NextRequest ==
    \/ \E r \in UploadRequests, name \in Names :
          Upload(r.cid, name, r.ext, r.form, r.overwrite, r.remux)
    \/ \E cid \in RequestCids, d \in RequestForms : Retranscode(cid, d)
    \/ \E d \in GlobalProfiles : GlobalTranscode(d)
    \/ Start(WorkerCid)
    \/ \E t \in ThreadIds : WSpawn(t)

SpecRequest == Init /\ [][NextRequest]_vars

(***************************************************************************)
(* Properties of the request validation.                                   *)
(***************************************************************************)
\* The values a request keeps or takes from the global profile gtc.
FallsBack(req, tc, gtc) ==
    /\ tc.preset = IF req.preset \in VALID_PRESETS THEN req.preset ELSE gtc.preset
    /\ tc.resolution = IF req.resolution \in VALID_RESOLUTIONS THEN req.resolution
                       ELSE gtc.resolution
    /\ tc.fps = IF req.fps \in VALID_FPS THEN req.fps ELSE gtc.fps
    /\ tc.vbitrate = IF _BITRATE_RE(req.vbitrate) THEN req.vbitrate ELSE gtc.vbitrate
    /\ tc.abitrate = IF _BITRATE_RE(req.abitrate) THEN req.abitrate ELSE gtc.abitrate

\* C28: an upload or retranscode request with an invalid preset, resolution,
\* fps or bitrate proceeds with the global profile's value in its place, and
\* a request with an invalid codec is answered with an error.
C28_InvalidValuesFallBack ==
    \A op \in {"upload", "retranscode"} :
        (last_call.op = op /\ last_call.status # HttpNotFound) =>
            /\ last_call.requested.codec \notin VALID_CODECS
                  => last_call.status = HttpBadRequest
            /\ last_call.status = HttpOk
                  => FallsBack(last_call.requested, last_call.tc, global_tc)

\* The same for retranscode alone.
RetranscodeFallsBack ==
    (last_call.op = "retranscode" /\ last_call.status # HttpNotFound) =>
        /\ last_call.requested.codec \notin VALID_CODECS
              => last_call.status = HttpBadRequest
        /\ last_call.status = HttpOk
              => FallsBack(last_call.requested, last_call.tc, global_tc)

RetranscodeFellBack ==
    /\ last_call.op = "retranscode"
    /\ last_call.status = HttpOk
    /\ last_call.requested.preset \notin VALID_PRESETS
    /\ last_call.tc.preset = "medium"
    /\ last_call.tc.vbitrate = "6M"

\* Upload: only the bitrates fall back to the global profile.
UploadBitratesFallBack ==
    (last_call.op = "upload" /\ last_call.status = HttpOk) =>
        /\ last_call.tc.vbitrate = IF _BITRATE_RE(last_call.requested.vbitrate)
                                   THEN last_call.requested.vbitrate ELSE global_tc.vbitrate
        /\ last_call.tc.abitrate = IF _BITRATE_RE(last_call.requested.abitrate)
                                   THEN last_call.requested.abitrate ELSE global_tc.abitrate

\* The response is an error and the registry, the workers, the jobs, the
\* stored files and the state file are as they were.
RejectedUnchanged ==
    /\ last_call'.status \in {HttpBadRequest, HttpNotFound}
    /\ UNCHANGED <<regVars, workerVars, jobVars>>

\* C29: an upload whose cid is outside [0, max_channels) or whose file has an
\* unsupported extension, and a retranscode with an unknown codec, are answered
\* with an error and change neither the registry, the workers, the files nor
\* the state file.
C29_RejectedRequestChangesNothing ==
    [][/\ \A r \in UploadRequests, name \in Names :
             (/\ ~(0 <= r.cid /\ r.cid < max_channels) \/ r.ext \notin ALLOWED_EXTENSIONS
              /\ Upload(r.cid, name, r.ext, r.form, r.overwrite, r.remux))
                 => RejectedUnchanged
       /\ \A cid \in RequestCids, d \in RequestForms :
             (/\ Requested(d, global_tc).codec \notin VALID_CODECS
              /\ Retranscode(cid, d))
                 => RejectedUnchanged]_vars

\* An unknown codec was rejected on a loaded channel whose worker is streaming.
C29_RejectedWhileStreaming ==
    /\ last_call.op = "retranscode"
    /\ last_call.status = HttpBadRequest
    /\ last_call.requested.codec \notin VALID_CODECS
    /\ is_running(channels, WorkerCid)
    /\ \E t \in ThreadIds : wthreads[t].cid = WorkerCid /\ wthreads[t].child = "alive"
    /\ metadata[WorkerCid]["src_path"] \in files
    /\ IsDoc(state_file)

(***************************************************************************)
(* Properties of update_channel on a worker.                               *)
(***************************************************************************)
\* What update_channel returns and how it leaves the worker's flag.
UpdateReturnsWas(cid) ==
    /\ last_call'.was = channels[cid].running
    /\ ~channels'[cid].running

\* No child of the registered worker of cid is alive.
WorkerChildless(chs, wt, cid) ==
    \A t \in ThreadIds : wt[t].obj = chs[cid].obj => wt[t].child # "alive"

UpdateWithNetKey ==
    [][\A kw \in WorkerUpdateInputs :
          ((DOMAIN kw) \cap NetKeys # {} /\ UpdateChannel(WorkerCid, kw))
              => UpdateReturnsWas(WorkerCid)]_vars

\* C30: update_channel with a network key on a registered cid returns true
\* exactly when the worker was running, has stopped the worker's child when it
\* returns, and the worker stays stopped until it is started again.
C30_UpdateStopsWorker ==
    /\ [][\A kw \in WorkerUpdateInputs :
             ((DOMAIN kw) \cap NetKeys # {} /\ UpdateChannel(WorkerCid, kw))
                 => /\ UpdateReturnsWas(WorkerCid)
                    /\ WorkerChildless(channels', wthreads', WorkerCid)]_vars
    /\ []((/\ last_call.op = "update_channel"
           /\ last_call.was
           /\ stop_log[WorkerCid]
           /\ HasChannel(channels, WorkerCid))
              => WorkerChildless(channels, wthreads, WorkerCid))

\* A running worker was updated with a network key.
UpdatedWhileRunning ==
    /\ last_call.op = "update_channel"
    /\ last_call.was
    /\ (DOMAIN last_call.kw) \cap NetKeys # {}
    /\ ~channels[WorkerCid].running
    /\ channels[WorkerCid].encap = "rtp"

(***************************************************************************)
(* Properties of the media paths of the registered channels.               *)
(***************************************************************************)
ChannelPaths(md, cid) == IF HasMeta(md, cid) THEN MetaPaths(md[cid]) ELSE {}

PathsDisjoint ==
    \A c \in Cids : \A d \in Cids \ {c} :
        (HasChannel(channels, c) /\ HasChannel(channels, d))
            => ChannelPaths(metadata, c) \cap ChannelPaths(metadata, d) = {}

\* C31: no two registered channels have the same filepath or the same source
\* path, and removing a channel erases no file of another registered channel.
C31_PathsOwnedByOneCid ==
    /\ []PathsDisjoint
    /\ [][\A cid \in Cids : Remove(cid) =>
             \A d \in Cids \ {cid} :
                 HasChannel(channels, d)
                     => ChannelPaths(metadata, d) \cap files \subseteq files']_vars

(***************************************************************************)
(* One worker and its runs, with the scheduler's guarantee that a thread   *)
(* whose wait() has returned, or whose Popen raised, goes on to the end of *)
(* _run.                                                                   *)
(***************************************************************************)
NextRun ==
    \/ AddChannel(WorkerCid, OrigPath("a"), "a", FALSE)
    \/ Start(WorkerCid)
    \/ Stop(WorkerCid)
    \/ \E t \in ThreadIds : WSpawn(t)
    \/ \E t \in ThreadIds : WSpawnFail(t)
    \/ \E t \in ThreadIds : WChildExit(t)
    \/ \E t \in ThreadIds : WWait(t)
    \/ \E t \in ThreadIds : WFinish(t)

SpecRun ==
    /\ Init
    /\ [][NextRun]_vars
    /\ \A t \in ThreadIds : WF_vars(WWait(t)) /\ WF_vars(WFinish(t))

\* The child of run t has exited, or its launch failed.
ChildGone(t) ==
    \/ wthreads[t].pc = "wait" /\ wthreads[t].child = "dead"
    \/ wthreads[t].pc = "finish"

\* C32: when the child of a run exits on its own or fails to launch, the run
\* ends: its last step clears the worker's running flag and calls on_stop,
\* and it is taken once.
C32_ExitClearsFlagOnce ==
    /\ [][\A t \in ThreadIds : WFinish(t) =>
             /\ ~(Live(t))'
             /\ Registered(t) => ~channels'[wthreads[t].cid].running]_vars
    /\ \A t \in ThreadIds : ChildGone(t) ~> ~Live(t)

\* A run has ended by itself: the flag is clear, no stop() was called since
\* the start, and the handle still refers to the exited child.
C32_RunEndedByItself ==
    /\ HasChannel(channels, WorkerCid)
    /\ ~channels[WorkerCid].running
    /\ channels[WorkerCid].process # 0
    /\ ~stop_log[WorkerCid]
    /\ \A t \in ThreadIds : ~Live(t)

(***************************************************************************)
(* Transcode jobs whose thread is scheduled: a _run thread that can take a *)
(* step that does not wait for the child eventually takes it.              *)
(***************************************************************************)
JobThreadStep(j) ==
    \/ JobTick(j)
    \/ JobEOF(j)
    \/ JobWait(j)
    \/ JobFinalTick(j)
    \/ JobComplete(j)
    \/ JobError(j)
    \/ JobFinally(j)

SpecJobFair == SpecJob /\ \A j \in JobIds : WF_vars(JobThreadStep(j))

\* job.start() has run and active is false again.
Cleared(j) == jobs[j].lpc = "done" /\ ~jobs[j].active

\* The child of job j has exited or could not be launched.
JobChildGone(j) ==
    \/ jobs[j].process = "exited"
    \/ jobs[j].pc = "on_error" /\ jobs[j].process = "none"

JobsEventuallyInactive ==
    \A j \in JobIds : JobChildGone(j) ~> ~jobs[j].active

\* C33: a started job has active = false eventually once its child has exited
\* or failed to launch, and a job whose active flag has been cleared delivers
\* no further callback and does not become active again.
C33_ClearedJobsStayQuiet ==
    /\ [][\A j \in JobIds : Cleared(j) =>
             /\ ~jobs'[j].active
             /\ Delivered(j)' = Delivered(j)]_vars
    /\ JobsEventuallyInactive

(***************************************************************************)
(* Properties of the progress ticks.                                       *)
(***************************************************************************)
Ticks(j) == {i \in Positions(j) : jobs[j].log[i].e = "on_progress"}

FinalTicks(j) == {i \in Ticks(j) : jobs[j].log[i].pct = PctFinal}

\* C34: every tick but the final one has pct in 0..99; pct = 100 is delivered
\* once at most, after the child has exited with code 0, and no tick follows
\* it; when the duration is unknown (0) every other tick has pct = 0 and
\* eta = 0.
C34_TickRange ==
    \A j \in JobIds :
        /\ \A i \in Ticks(j) : jobs[j].log[i].pct \in 0 .. PctFinal
        /\ Cardinality(FinalTicks(j)) <= 1
        /\ \A i \in FinalTicks(j) :
              /\ jobs[j].process = "exited"
              /\ jobs[j].rc = 0
              /\ \A k \in Ticks(j) : k <= i
        /\ jobs[j].duration = 0 =>
              \A i \in Ticks(j) \ FinalTicks(j) :
                  jobs[j].log[i].pct = 0 /\ jobs[j].log[i].eta = 0

\* A job of unknown duration has delivered every block as a tick and then the
\* final tick.
C34_TicksDelivered ==
    \E j \in JobIds :
        /\ Cardinality(Ticks(j)) = MaxBlocks + 1
        /\ FinalTicks(j) # {}
        /\ jobs[j].duration = 0

(***************************************************************************)
(* Properties of the job map.                                              *)
(***************************************************************************)
\* C35: every job held in transcode_jobs whose start_transcode call has
\* returned is active: a job that has completed or failed is not in the map.
C35_MapHoldsActiveJobs ==
    \A c \in Cids :
        (transcode_jobs[c] # 0 /\ jobs[transcode_jobs[c]].lpc = "done")
            => jobs[transcode_jobs[c]].active

\* A job never leaves the map because its thread ends.
OnlyCancelPops ==
    [][\A c \in Cids :
          (transcode_jobs[c] # 0 /\ transcode_jobs'[c] # transcode_jobs[c])
              => \/ CancelTranscode(c)
                 \/ \E j \in JobIds : StartTranscodeCancel(j) \/ StartTranscodeInstall(j)]_vars

(***************************************************************************)
(* Properties relating a worker to its metadata.                           *)
(***************************************************************************)
Agree(c, keys) ==
    (HasChannel(channels, c) /\ HasMeta(metadata, c))
        => \A k \in keys : channels[c][k] = metadata[c][k]

\* C36: for every registered cid the worker's ip, port, encap and loop equal
\* the values in the channel's metadata.
C36_WorkerMatchesMetadata ==
    \A c \in Cids : Agree(c, {"ip", "port", "encap", "loop"})

EncapLoopAgree == \A c \in Cids : Agree(c, {"encap", "loop"})

(***************************************************************************)
(* Properties of the runs of one worker.                                   *)
(***************************************************************************)
\* The threads of the registered worker of c that have not returned.
Runs(c) == {t \in ThreadIds : Live(t) /\ wthreads[t].cid = c /\ Registered(t)}

Streaming(c) == {t \in Runs(c) : wthreads[t].child = "alive"}

\* C37: a channel has at most one streaming child alive, and while the child
\* of its only unfinished run (the one the latest start() launched) is alive
\* the worker's running flag is true.
C37_OneChildWhileRunning ==
    \A c \in Cids :
        HasChannel(channels, c) =>
            /\ Cardinality(Streaming(c)) <= 1
            /\ (Cardinality(Runs(c)) = 1 /\ Streaming(c) # {}) => channels[c].running

OneChildPerWorker ==
    \A c \in Cids : HasChannel(channels, c) => Cardinality(Streaming(c)) <= 1

(***************************************************************************)
(* Uploads with a transcode on one channel, and its removal.               *)
(***************************************************************************)
NextRemoval ==
    \/ \E name \in Names, form \in {CopyForm, EncodeForm} :
          Upload(WorkerCid, name, ".mp4", form, TRUE, FALSE)
    \/ Remove(WorkerCid)
    \/ \E j \in JobIds : StartTranscodeCancel(j)
    \/ \E j \in JobIds : StartTranscodeInstall(j)
    \/ \E j \in JobIds : StartTranscodeStart(j)
    \/ \E j \in JobIds, duration \in UploadDurations : JobSpawn(j, duration)
    \/ \E j \in JobIds : JobSpawnFail(j)
    \/ \E j \in JobIds, rc \in ExitCodes : JobChildExit(j, rc)
    \/ \E j \in JobIds, us \in UploadUsValues : JobReadBlock(j, us)
    \/ \E j \in JobIds : JobTick(j)
    \/ \E j \in JobIds : JobEOF(j)
    \/ \E j \in JobIds : JobWait(j)
    \/ \E j \in JobIds : JobFinalTick(j)
    \/ \E j \in JobIds : JobComplete(j)
    \/ \E j \in JobIds : JobError(j)
    \/ \E j \in JobIds : JobFinally(j)

SpecRemoval == Init /\ [][NextRemoval]_vars

\* No request has been answered since the removal of cid.
RemovedLast(cid) == last_call.op = "remove" /\ last_call.cid = cid

\* C38: once remove_channel(cid) has returned, cid is registered again only
\* by an upload accepted after the removal, never by a pipeline or a job that
\* was in flight when the channel was removed.
C38_RemovedStaysRemoved ==
    [][\A cid \in Cids :
          (RemovedLast(cid) /\ RemovedLast(cid)')
              => (HasChannel(channels', cid) => HasChannel(channels, cid))]_vars

\* The removal itself leaves the cid unregistered.
RemovalUnregisters ==
    [][\A cid \in Cids : Remove(cid) => ~HasChannel(channels', cid) /\ ~HasMeta(metadata', cid)]_vars

(***************************************************************************)
(* Properties of a retranscode on a running channel.                       *)
(***************************************************************************)
\* Job j is the latest transcode of its cid, it was requested by a retranscode
\* that stopped the stream, it was not cancelled and its thread has returned.
RetranscodeOver(j) ==
    /\ jobs[j].kind = "retranscode"
    /\ jobs[j].was_running
    /\ jobs[j].pc = "done"
    /\ ~HasEntry(j, "cancel_returned")
    /\ transcode_jobs[jobs[j].cid] = j
    /\ \A k \in JobIds \ {j} : jobs[k].lpc \in {"idle", "done"}

\* C39: a retranscode on a running channel stops the stream, and when its job
\* has finished, with on_complete or with on_error, the channel streams again.
C39_StreamsAgainAfterRetranscode ==
    /\ [][\A j \in JobIds, codec \in Codecs :
             (LaunchRetranscode(j, WorkerCid, codec) /\ is_running(channels, WorkerCid))
                 => ~is_running(channels', WorkerCid)]_vars
    /\ [](\A j \in JobIds : RetranscodeOver(j) => is_running(channels, jobs[j].cid))

\* The same for the jobs that ended with on_complete.
StreamsAgainAfterSuccess ==
    \A j \in JobIds :
        (RetranscodeOver(j) /\ HasEntry(j, "on_complete")) => is_running(channels, jobs[j].cid)

RetranscodeSucceeded ==
    \E j \in JobIds : RetranscodeOver(j) /\ HasEntry(j, "on_complete")

(***************************************************************************)
(* Properties of the workers restored at startup.                          *)
(***************************************************************************)
RestoredKeys == {"ip", "port", "encap", "loop", "bitrate", "pre_transcoded"}

SameSettings(before, after, keys) == \A k \in keys : after[k] = before[k]

\* C40: after a restart every restored worker has the ip, port, encap, loop,
\* bitrate cap and pre_transcoded flag its worker had before the restart
\* (every change of these settings saves the state).
C40_RestoredWorkerSettings ==
    [][Restart =>
          \A c \in Cids :
              (HasChannel(channels, c) /\ HasChannel(channels', c))
                  => SameSettings(channels[c], channels'[c], RestoredKeys)]_vars

\* The same without the bitrate cap.
RestoredButBitrate ==
    [][Restart =>
          \A c \in Cids :
              (HasChannel(channels, c) /\ HasChannel(channels', c))
                  => SameSettings(channels[c], channels'[c], RestoredKeys \ {"bitrate"})]_vars

====
